---- MODULE Spec2Model ----
(***************************************************************************)
(* gitu: the output parsers of src/git.rs and the application state of     *)
(* src/ui/app.rs under the key handlers of src/input.rs.                    *)
(*                                                                          *)
(* Parsers.  A text is a sequence of characters (one-character strings); a *)
(* character has a UTF-8 width, because the parsers mix character indices  *)
(* (chars().enumerate(), chars().nth()) with byte indices (len(),          *)
(* line[n..]), and a byte index that is out of range or inside a character *)
(* panics.  Each parser has its own specification: the gateway function    *)
(* is called once on some output of its command (input), and returns (ret) *)
(* or panics (pc).                                                          *)
(*                                                                          *)
(* Application.  Spec is App::new followed by key events: app is the App,  *)
(* input the key handled last, ret the Gateway calls its handler made, pc  *)
(* whether the session runs, and keys the number of keys handled.          *)
(***************************************************************************)
EXTENDS Naturals, Sequences, FiniteSets, TLC

VARIABLES input, pc, ret, app, keys

vars == <<input, pc, ret, app, keys>>

\* In the specifications of the parsers no App is constructed and no key is read.
NoApp == app = <<>> /\ keys = 0

(***************************************************************************)
(* Characters and strings (Rust str).                                       *)
(***************************************************************************)

\* U+00E9, two bytes in UTF-8, and U+65E5, three bytes.
EAcute == "U+00E9"
Kanji == "U+65E5"

ByteLen(c) == IF c = EAcute THEN 2 ELSE IF c = Kanji THEN 3 ELSE 1

RECURSIVE ByteLenOf(_)
ByteLenOf(s) == IF s = <<>> THEN 0 ELSE ByteLen(Head(s)) + ByteLenOf(Tail(s))

\* The character counts whose prefix ends exactly at byte offset n.
BoundaryAt(s, n) == {k \in 0..Len(s) : ByteLenOf(SubSeq(s, 1, k)) = n}

\* s[n..] and s[..n] with n a byte offset: a panic off a character boundary.
SliceFrom(s, n) ==
  IF BoundaryAt(s, n) = {} THEN [ok |-> FALSE, val |-> <<>>]
  ELSE LET k == CHOOSE k \in BoundaryAt(s, n) : TRUE
       IN [ok |-> TRUE, val |-> SubSeq(s, k + 1, Len(s))]

SliceTo(s, n) ==
  IF BoundaryAt(s, n) = {} THEN [ok |-> FALSE, val |-> <<>>]
  ELSE LET k == CHOOSE k \in BoundaryAt(s, n) : TRUE
       IN [ok |-> TRUE, val |-> SubSeq(s, 1, k)]

Min(S) == CHOOSE x \in S : \A y \in S : x <= y

\* Positions of character c in s.
Positions(s, c) == {i \in 1..Len(s) : s[i] = c}

\* str::lines: split at "\n", a "\r" right before the "\n" goes with it, and
\* no empty last line after a final "\n".
RECURSIVE Lines(_)
Lines(t) ==
  IF t = <<>> THEN <<>>
  ELSE IF Positions(t, "\n") = {} THEN <<t>>
  ELSE LET i == Min(Positions(t, "\n"))
           raw == SubSeq(t, 1, i - 1)
           line == IF raw # <<>> /\ raw[Len(raw)] = "\r"
                   THEN SubSeq(raw, 1, Len(raw) - 1) ELSE raw
       IN <<line>> \o Lines(SubSeq(t, i + 1, Len(t)))

\* char::is_whitespace on the characters of the model.
IsWhitespace(c) == c \in {" ", "\t", "\n", "\r"}

\* str::trim.
RECURSIVE TrimStart(_)
TrimStart(s) ==
  IF s # <<>> /\ IsWhitespace(Head(s)) THEN TrimStart(Tail(s)) ELSE s

RECURSIVE TrimEnd(_)
TrimEnd(s) ==
  IF s # <<>> /\ IsWhitespace(s[Len(s)])
  THEN TrimEnd(SubSeq(s, 1, Len(s) - 1)) ELSE s

Trim(s) == TrimEnd(TrimStart(s))

\* str::starts_with and str::strip_prefix (the rest; only after StartsWith).
StartsWith(s, p) == Len(s) >= Len(p) /\ SubSeq(s, 1, Len(p)) = p

StripPrefix(s, p) == SubSeq(s, Len(p) + 1, Len(s))

\* str::contains for a character.
Contains(s, c) == Positions(s, c) # {}

\* str::splitn(2, c): one part, or the parts before and after the first c.
SplitN2(s, c) ==
  IF Positions(s, c) = {} THEN <<s>>
  ELSE LET i == Min(Positions(s, c))
       IN <<SubSeq(s, 1, i - 1), SubSeq(s, i + 1, Len(s))>>

\* str::split(c): every part, empty ones included.
RECURSIVE Split(_, _)
Split(s, c) ==
  IF Positions(s, c) = {} THEN <<s>>
  ELSE LET i == Min(Positions(s, c))
       IN <<SubSeq(s, 1, i - 1)>> \o Split(SubSeq(s, i + 1, Len(s)), c)

\* str::split_whitespace: the maximal runs of non-whitespace characters.
RECURSIVE SplitWhitespace(_)
SplitWhitespace(s) ==
  LET t == TrimStart(s)
      ws == {i \in 1..Len(t) : IsWhitespace(t[i])}
  IN IF t = <<>> THEN <<>>
     ELSE IF ws = {} THEN <<t>>
     ELSE <<SubSeq(t, 1, Min(ws) - 1)>>
          \o SplitWhitespace(SubSeq(t, Min(ws), Len(t)))

\* Sequences over S of length lo..hi, and the texts git prints from lines.
SeqsOf(S, lo, hi) == UNION {[1..n -> S] : n \in lo..hi}

RECURSIVE Unlines(_)
Unlines(ls) == IF ls = <<>> THEN <<>> ELSE Head(ls) \o <<"\n">> \o Unlines(Tail(ls))

(***************************************************************************)
(* parse_status_output: git status --porcelain.                             *)
(***************************************************************************)

\* match staged_char { 'M' .. 'R', _ => Modified }
StagedStatus(c) ==
  CASE c = "M" -> "Modified"
    [] c = "A" -> "Added"
    [] c = "D" -> "Deleted"
    [] c = "R" -> "Renamed"
    [] OTHER -> "Modified"

\* match unstaged_char { 'M', 'D', _ => Modified }
UnstagedStatus(c) ==
  CASE c = "M" -> "Modified"
    [] c = "D" -> "Deleted"
    [] OTHER -> "Modified"

StatusFile(path, status, staged) ==
  [path |-> path, status |-> status, staged |-> staged]

\* A plausible slip: the path taken from the separator column on.
StatusPathFromSeparator(line) == SliceFrom(line, 2)

\* let path = line[3..]
StatusPath(line) == SliceFrom(line, 3)

\* One iteration of the loop over output.lines(): the entries pushed, or a
\* panic (nth(1).unwrap() on a one-character line, line[3..] inside a character).
parse_status_line(line) ==
  IF ByteLenOf(line) < 3 THEN [ok |-> TRUE, val |-> <<>>]
  ELSE IF Len(line) < 2 \/ ~StatusPath(line).ok THEN [ok |-> FALSE, val |-> <<>>]
  ELSE
    LET staged_char == line[1]
        unstaged_char == line[2]
        path == StatusPath(line).val
        s == IF staged_char # " " /\ staged_char # "?"
             THEN <<StatusFile(path, StagedStatus(staged_char), TRUE)>> ELSE <<>>
        u == IF unstaged_char # " "
             THEN <<StatusFile(path, UnstagedStatus(unstaged_char), FALSE)>> ELSE <<>>
        q == IF staged_char = "?" /\ unstaged_char = "?"
             THEN <<StatusFile(path, "Untracked", FALSE)>> ELSE <<>>
    IN [ok |-> TRUE, val |-> s \o u \o q]

RECURSIVE StatusLoop(_, _)
StatusLoop(lines, files) ==
  IF lines = <<>> THEN [ok |-> TRUE, val |-> files]
  ELSE LET r == parse_status_line(Head(lines))
       IN IF r.ok THEN StatusLoop(Tail(lines), files \o r.val)
          ELSE [ok |-> FALSE, val |-> <<>>]

parse_status_output(output) == StatusLoop(Lines(output), <<>>)

\* The inputs: porcelain lines XY<space>path, and lines that are not porcelain.
MaxStatusLines == 2

StatusCodes == {" ", "M", "A", "D", "R", "?", "U"}

PorcelainLines == {<<x, y, " ", "f">> : x \in StatusCodes, y \in StatusCodes}

OddStatusLines ==
  SeqsOf({" ", "M", "?", EAcute, Kanji}, 0, 2)
    \cup {<<x, y, z>> \o p : x \in {"M", EAcute}, y \in {" ", "M"},
                            z \in {" ", EAcute}, p \in {<<>>, <<"f", " ", EAcute>>}}

StatusTexts ==
  {Unlines(ls) : ls \in SeqsOf(PorcelainLines, 0, MaxStatusLines)}
    \cup {l : l \in OddStatusLines} \cup {Unlines(<<l>>) : l \in OddStatusLines}

InitStatus == input = <<>> /\ pc = "start" /\ ret = <<>> /\ NoApp

\* get_status, its command having succeeded with some output.
GetStatus ==
  /\ pc = "start"
  /\ UNCHANGED <<app, keys>>
  /\ \E out \in StatusTexts :
       LET r == parse_status_output(out)
       IN /\ input' = out
          /\ ret' = r.val
          /\ pc' = IF r.ok THEN "returned" ELSE "panicked"

NextStatus == GetStatus

SpecStatus == InitStatus /\ [][NextStatus]_vars

(***************************************************************************)
(* parse_log_output: git log --graph --oneline --all --decorate.           *)
(***************************************************************************)

Decoration(kind, name) == [kind |-> kind, name |-> name]

Commit(graph, hash, message, decorations) ==
  [graph |-> graph, hash |-> hash, message |-> message, decorations |-> decorations]

\* The string literals parse_decoration_string matches.
HeadArrow == <<"H", "E", "A", "D", " ", "-", ">", " ">>

HeadWord == <<"H", "E", "A", "D">>

TagPrefix == <<"t", "a", "g", ":", " ">>

\* A plausible slip: every ref that is not a tag taken for a local branch.
AlwaysLocalBranch(name) == Decoration("Branch", name)

\* if name.contains('/') { RemoteBranch(name) } else { Branch(name) }
BranchOrRemote(name) ==
  IF Contains(name, "/") THEN Decoration("RemoteBranch", name)
  ELSE Decoration("Branch", name)

\* One iteration of the loop over decoration_str.split(','): what is pushed.
parse_decoration_part(raw) ==
  LET part == Trim(raw)
  IN IF part = <<>> THEN <<>>
     ELSE IF StartsWith(part, HeadArrow)
     THEN LET branch == Trim(StripPrefix(part, HeadArrow))
          IN <<Decoration("Head", <<>>)>>
             \o (IF branch # <<>> THEN <<BranchOrRemote(branch)>> ELSE <<>>)
     ELSE IF part = HeadWord THEN <<Decoration("Head", <<>>)>>
     ELSE IF StartsWith(part, TagPrefix)
     THEN LET tag_name == Trim(StripPrefix(part, TagPrefix))
          IN IF tag_name # <<>> THEN <<Decoration("Tag", tag_name)>> ELSE <<>>
     ELSE <<BranchOrRemote(part)>>

RECURSIVE DecorationLoop(_, _)
DecorationLoop(parts, decorations) ==
  IF parts = <<>> THEN decorations
  ELSE DecorationLoop(Tail(parts), decorations \o parse_decoration_part(Head(parts)))

parse_decoration_string(decoration_str) ==
  DecorationLoop(Split(decoration_str, ","), <<>>)

\* A plausible slip: the text after the hash kept as the message untrimmed.
MessageVerbatim(text, trimmed) == text

\* return (Vec::new(), text.to_string()), text being text.trim() by then.
PlainMessage(text, trimmed) == trimmed

\* find(')') is a byte offset and text[1..close_paren] slices by bytes, "(" and
\* ")" being one byte each: the same split as by characters.
parse_decorations_and_message(text) ==
  LET trimmed == Trim(text)
  IN IF ~StartsWith(trimmed, <<"(">>)
     THEN [decorations |-> <<>>, message |-> PlainMessage(text, trimmed)]
     ELSE IF Contains(trimmed, ")")
     THEN LET close_paren == Min(Positions(trimmed, ")"))
          IN [decorations |->
                parse_decoration_string(SubSeq(trimmed, 2, close_paren - 1)),
              message |-> Trim(SubSeq(trimmed, close_paren + 1, Len(trimmed)))]
     ELSE [decorations |-> <<>>, message |-> PlainMessage(text, trimmed)]

\* char::is_ascii_hexdigit.
IsHexDigit(c) ==
  c \in {"0", "1", "2", "3", "4", "5", "6", "7", "8", "9",
         "a", "b", "c", "d", "e", "f", "A", "B", "C", "D", "E", "F"}

HexPositions(line) == {i \in 1..Len(line) : IsHexDigit(line[i])}

\* hash_start: the 0-based character index of the first hex digit, else 0.
HashStart(line) ==
  IF HexPositions(line) = {} THEN 0 ELSE Min(HexPositions(line)) - 1

\* One iteration of the loop over output.lines(): the commit pushed, none, or a
\* panic: hash_start counts characters, line[..hash_start] and
\* line[hash_start..] take it for a byte offset.
parse_log_line(line) ==
  IF line = <<>> THEN [ok |-> TRUE, val |-> <<>>]
  ELSE IF HashStart(line) = 0 /\ ~IsHexDigit(line[1]) THEN [ok |-> TRUE, val |-> <<>>]
  ELSE IF ~SliceFrom(line, HashStart(line)).ok THEN [ok |-> FALSE, val |-> <<>>]
  ELSE
    LET hash_start == HashStart(line)
        graph == IF hash_start > 0 THEN SliceTo(line, hash_start).val ELSE <<>>
        rest == SliceFrom(line, hash_start).val
        parts == SplitN2(rest, " ")
        hash == parts[1]
        rest_after_hash == IF Len(parts) > 1 THEN parts[2] ELSE <<>>
        dm == parse_decorations_and_message(rest_after_hash)
    IN [ok |-> TRUE, val |-> <<Commit(graph, hash, dm.message, dm.decorations)>>]

RECURSIVE LogLoop(_, _)
LogLoop(lines, commits) ==
  IF lines = <<>> THEN [ok |-> TRUE, val |-> commits]
  ELSE LET r == parse_log_line(Head(lines))
       IN IF r.ok THEN LogLoop(Tail(lines), commits \o r.val)
          ELSE [ok |-> FALSE, val |-> <<>>]

parse_log_output(output) == LogLoop(Lines(output), <<>>)

\* The inputs.  Texts of several lines are drawn from LogLines; one-line texts
\* also from DecoratedLogLines, with decorations and padded messages.
MaxLogLines == 2

LogGraphs == {<<>>, <<"*", " ">>, <<EAcute, " ">>}

LogHashes == {<<"a", "b", "1">>, <<"c", "2">>}

LogLines ==
  {g \o h \o r : g \in LogGraphs, h \in LogHashes, r \in {<<>>, <<" ", "m">>}}
    \cup {<<>>, <<"|", "\\", " ">>}

LogBodies ==
  {<<>>, <<"m">>, <<"m", " ", "n">>, <<"m", " ", "(", "n", ")">>, <<"(", "m">>,
   <<"(", "m", ")", " ", "n">>, <<"(", "o", "/", "m", ")">>,
   <<"(">> \o HeadArrow \o <<"m", ",", " ">> \o TagPrefix \o <<"v", ")", " ", "n">>}

DecoratedLogLines ==
  {g \o <<"a", "b", "1", " ">> \o p \o b \o q :
     g \in LogGraphs \cup {<<EAcute>>}, p \in {<<>>, <<" ">>}, b \in LogBodies,
     q \in {<<>>, <<" ">>}}

LogTexts ==
  {Unlines(ls) : ls \in SeqsOf(LogLines, 0, MaxLogLines)} \cup DecoratedLogLines

InitLog == input = <<>> /\ pc = "start" /\ ret = <<>> /\ NoApp

\* get_commits, its command having succeeded with some output.
GetCommits ==
  /\ pc = "start"
  /\ UNCHANGED <<app, keys>>
  /\ \E out \in LogTexts :
       LET r == parse_log_output(out)
       IN /\ input' = out
          /\ ret' = r.val
          /\ pc' = IF r.ok THEN "returned" ELSE "panicked"

NextLog == GetCommits

SpecLog == InitLog /\ [][NextLog]_vars

\* parse_decoration_string on its own: the decoration lists of one to
\* MaxDecorations parts, joined as git joins them.
MaxDecorations == 2

DecorationParts ==
  {<<>>, <<"m">>, <<"o", "/", "m">>, <<" ", "m", " ">>, HeadWord,
   HeadArrow \o <<"m">>, HeadArrow \o <<"o", "/", "m">>, HeadArrow \o <<" ", "m">>,
   <<"H", "E", "A", "D", " ", "-", ">">>, TagPrefix \o <<"v">>,
   TagPrefix \o <<"o", "/", "v">>, <<"t", "a", "g", ":">>}

RECURSIVE JoinDecorations(_)
JoinDecorations(ps) ==
  IF Len(ps) <= 1 THEN (IF ps = <<>> THEN <<>> ELSE ps[1])
  ELSE ps[1] \o <<",", " ">> \o JoinDecorations(Tail(ps))

DecorationStrings ==
  {JoinDecorations(ps) : ps \in SeqsOf(DecorationParts, 0, MaxDecorations)}

InitDecorations == input = <<>> /\ pc = "start" /\ ret = <<>> /\ NoApp

ParseDecorationString ==
  /\ pc = "start"
  /\ UNCHANGED <<app, keys>>
  /\ \E decoration_str \in DecorationStrings :
       /\ input' = decoration_str
       /\ ret' = parse_decoration_string(decoration_str)
       /\ pc' = "returned"

NextDecorations == ParseDecorationString

SpecDecorations == InitDecorations /\ [][NextDecorations]_vars

(***************************************************************************)
(* parse_commit_diff: git show --color=never <hash>.                        *)
(***************************************************************************)

FileDiff(filename, diff_content) ==
  [filename |-> filename, diff_content |-> diff_content]

\* The string literals parse_commit_diff matches and produces.
DiffGit == <<"d", "i", "f", "f", " ", "-", "-", "g", "i", "t">>

IndexPrefix == <<"i", "n", "d", "e", "x", " ">>

MinusPrefix == <<"-", "-", "-", " ">>

PlusPrefix == <<"+", "+", "+", " ">>

APrefix == <<"a", "/">>

Unknown == <<"u", "n", "k", "n", "o", "w", "n">>

NoChangesName == <<"(", "n", "o", " ", "c", "h", "a", "n", "g", "e", "s", ")">>

NoChangesContent == <<"N", "o", " ", "f", "i", "l", "e", " ", "c", "h", "a", "n", "g", "e", "s", " ", "i", "n", " ", "t", "h", "i", "s", " ", "c", "o", "m", "m", "i", "t", ".", "\n">>

\* str::trim_start_matches(p): p removed from the start as often as it is there.
RECURSIVE TrimStartMatches(_, _)
TrimStartMatches(s, p) ==
  IF p # <<>> /\ StartsWith(s, p) THEN TrimStartMatches(StripPrefix(s, p), p) ELSE s

\* line.split_whitespace().nth(2).unwrap_or("unknown").trim_start_matches("a/")
diff_filename(line) ==
  LET tokens == SplitWhitespace(line)
  IN TrimStartMatches(IF Len(tokens) >= 3 THEN tokens[3] ELSE Unknown, APrefix)

\* The metadata lines left out of diff_content.
IsSkippedLine(line) ==
  \/ StartsWith(line, DiffGit)
  \/ StartsWith(line, IndexPrefix)
  \/ StartsWith(line, MinusPrefix)
  \/ StartsWith(line, PlusPrefix)

\* A plausible slip: the last file never pushed.
ForgetLast(files, current_file) == files

\* "Don't forget the last file": if let Some(file_diff) = current_file
\* { files.push(file_diff) }; an Option is a sequence of no or one element.
PushLast(files, current_file) == files \o current_file

\* One iteration of the loop over the lines, on the loop's three variables.
DiffStep(st, line) ==
  IF ~st.found_first_diff /\ ~StartsWith(line, DiffGit) THEN st
  ELSE
    LET opened ==
          IF StartsWith(line, DiffGit)
          THEN [files |-> st.files \o st.current_file,
                current_file |-> <<FileDiff(diff_filename(line), <<>>)>>,
                found_first_diff |-> TRUE]
          ELSE st
    IN IF opened.current_file # <<>> /\ ~IsSkippedLine(line)
       THEN [opened EXCEPT !.current_file =
               <<FileDiff(opened.current_file[1].filename,
                          opened.current_file[1].diff_content \o line \o <<"\n">>)>>]
       ELSE opened

RECURSIVE DiffLoop(_, _)
DiffLoop(lines, st) ==
  IF lines = <<>> THEN st ELSE DiffLoop(Tail(lines), DiffStep(st, Head(lines)))

parse_commit_diff(output) ==
  LET st == DiffLoop(Lines(output),
                     [files |-> <<>>, current_file |-> <<>>, found_first_diff |-> FALSE])
      files == PushLast(st.files, st.current_file)
  IN IF files = <<>> THEN <<FileDiff(NoChangesName, NoChangesContent)>> ELSE files

\* The inputs: a commit header or none, then up to MaxDiffFiles file sections,
\* each a marker, metadata lines and hunks.
MaxDiffFiles == 2

DiffHeaders == {<<>>, <<<<"c", "o", "m", "m", "i", "t", " ", "a", "b", "1">>, <<>>, <<" ", " ", " ", " ", "m">>>>}

Marker(a, b) == DiffGit \o <<" ">> \o a \o <<" ">> \o b

DiffMarkers ==
  {Marker(<<"a", "/", "x">>, <<"b", "/", "x">>), Marker(<<"a", "/", "y">>, <<"b", "/", "y">>), Marker(<<"a", "/", "a", "/", "x">>, <<"b", "/", "a", "/", "x">>),
   Marker(APrefix, <<"b", "/">>), DiffGit}

FileHeader == <<<<"i", "n", "d", "e", "x", " ", "1", ".", ".", "2">>, <<"-", "-", "-", " ", "a", "/", "x">>, <<"+", "+", "+", " ", "b", "/", "x">>>>

DiffPreambles ==
  {<<>>, FileHeader, <<<<"n", "e", "w", " ", "f", "i", "l", "e", " ", "m", "o", "d", "e", " ", "1">>>> \o FileHeader, <<<<"s", "i", "m", "i", "l", "a", "r", "i", "t", "y", " ", "i", "n", "d", "e", "x", " ", "9", "%">>, <<"B", "i", "n", "a", "r", "y", " ", "f", "i", "l", "e", "s", " ", "d", "i", "f", "f", "e", "r">>>>}

HunkHeader == <<"@", "@", " ", "-", "1", " ", "+", "1", " ", "@", "@">>

DiffHunks ==
  {<<>>, <<HunkHeader, <<"+", "n">>>>, <<HunkHeader, <<" ", "c">>, <<"-", "o">>, <<"+", "n">>>>,
   <<HunkHeader, <<"-", "-", "-", " ", "o">>, <<"+", "+", "+", " ", "n">>>>}

DiffSections ==
  {<<m>> \o FileHeader \o <<HunkHeader, <<"+", "n">>>> : m \in DiffMarkers}
    \cup {<<Marker(<<"a", "/", "x">>, <<"b", "/", "x">>)>> \o pre \o hunks :
            pre \in DiffPreambles, hunks \in DiffHunks}

RECURSIVE Flatten(_)
Flatten(ss) == IF ss = <<>> THEN <<>> ELSE Head(ss) \o Flatten(Tail(ss))

DiffTexts ==
  {Unlines(h \o Flatten(ss)) :
     h \in DiffHeaders, ss \in SeqsOf(DiffSections, 0, MaxDiffFiles)}

InitDiff == input = <<>> /\ pc = "start" /\ ret = <<>> /\ NoApp

\* get_commit_diff, its command having succeeded with some output.
GetCommitDiff ==
  /\ pc = "start"
  /\ UNCHANGED <<app, keys>>
  /\ \E out \in DiffTexts :
       /\ input' = out
       /\ ret' = parse_commit_diff(out)
       /\ pc' = "returned"

NextDiff == GetCommitDiff

SpecDiff == InitDiff /\ [][NextDiff]_vars

(***************************************************************************)
(* parse_stash_output: git stash list.                                      *)
(***************************************************************************)

StashEntry(index, branch, message) ==
  [index |-> index, branch |-> branch, message |-> message]

\* The string literals parse_stash_output matches and produces.
WipOn == <<"W", "I", "P", " ", "o", "n", " ">>

OnPrefix == <<"O", "n", " ">>

\* "unknown" is Unknown, as in parse_commit_diff.

\* The branch and the message of what follows "WIP on " or "On ".
BranchAndMessage(rest) ==
  LET parts == SplitN2(rest, ":")
  IN IF Len(parts) = 2
     THEN [branch |-> Trim(parts[1]), message |-> Trim(parts[2])]
     ELSE [branch |-> Unknown, message |-> rest]

\* One iteration of the loop over output.lines().enumerate(): the entry pushed
\* for the line at position index, or none.
parse_stash_line(index, line) ==
  LET parts == SplitN2(line, ":")
  IN IF Len(parts) < 2 THEN <<>>
     ELSE LET rest == Trim(parts[2])
              bm == IF StartsWith(rest, WipOn) THEN BranchAndMessage(StripPrefix(rest, WipOn))
                    ELSE IF StartsWith(rest, OnPrefix)
                    THEN BranchAndMessage(StripPrefix(rest, OnPrefix))
                    ELSE [branch |-> Unknown, message |-> rest]
          IN <<StashEntry(index, bm.branch, bm.message)>>

RECURSIVE StashLoop(_, _, _)
StashLoop(lines, index, stashes) ==
  IF lines = <<>> THEN stashes
  ELSE StashLoop(Tail(lines), index + 1, stashes \o parse_stash_line(index, Head(lines)))

\* A plausible slip: the entries numbered by their place in the result.
parse_stash_output_renumbered(output) ==
  LET stashes == StashLoop(Lines(output), 0, <<>>)
  IN [k \in DOMAIN stashes |-> [stashes[k] EXCEPT !.index = k - 1]]

parse_stash_output(output) == StashLoop(Lines(output), 0, <<>>)

\* The inputs: up to MaxStashLines lines, stash@{N} with any N before a
\* descriptor, and lines without a colon.
MaxStashLines == 2

StashDescriptors ==
  {WipOn \o <<"b", ":", " ", "m">>, OnPrefix \o <<"b", ":", " ", "m">>, WipOn \o <<"b">>, <<"m">>}

StashLines ==
  {<<"s", "t", "a", "s", "h", "@", "{">> \o <<n>> \o <<"}", ":", " ">> \o d : n \in {"0", "1", "7"}, d \in StashDescriptors}
    \cup {<<>>, <<"j", "u", "n", "k">>}

StashTexts == {Unlines(ls) : ls \in SeqsOf(StashLines, 0, MaxStashLines)}

InitStash == input = <<>> /\ pc = "start" /\ ret = <<>> /\ NoApp

\* get_stashes, its command having succeeded with some output.
GetStashes ==
  /\ pc = "start"
  /\ UNCHANGED <<app, keys>>
  /\ \E out \in StashTexts :
       /\ input' = out
       /\ ret' = parse_stash_output(out)
       /\ pc' = "returned"

NextStash == GetStashes

SpecStash == InitStash /\ [][NextStash]_vars

(***************************************************************************)
(* parse_branch_output and get_branches: git branch -vv and git branch -r. *)
(***************************************************************************)

Branch(name, is_current, is_remote, commit_hash, commit_message) ==
  [name |-> name, is_current |-> is_current, is_remote |-> is_remote,
   commit_hash |-> commit_hash, commit_message |-> commit_message]

\* The string literal parse_branch_output drops lines on.
HeadArrowMark == <<"H", "E", "A", "D", " ", "-", ">">>

\* str::contains for a string.
ContainsStr(s, p) ==
  \E i \in 1..Len(s) : i + Len(p) <= Len(s) + 1 /\ SubSeq(s, i, i + Len(p) - 1) = p

\* str::splitn(3, c): at most three parts, cut at the first two c.
SplitN3(s, c) ==
  LET a == SplitN2(s, c)
  IN IF Len(a) = 1 THEN a ELSE <<a[1]>> \o SplitN2(a[2], c)

\* let line_content = &line[2..]
BranchLineContent(line) == SliceFrom(line, 2)

\* One iteration of the loop over output.lines(): the branch pushed, none, or
\* a panic (line[2..] past the end of the line or inside a character).
parse_branch_line(line, is_remote) ==
  LET trimmed == Trim(line)
  IN IF trimmed = <<>> \/ ContainsStr(trimmed, HeadArrowMark)
     THEN [ok |-> TRUE, val |-> <<>>]
     ELSE IF ~BranchLineContent(line).ok THEN [ok |-> FALSE, val |-> <<>>]
     ELSE
       LET is_current == StartsWith(line, <<"*">>)
           parts == SplitN3(Trim(BranchLineContent(line).val), " ")
       IN IF Len(parts) >= 2
          THEN [ok |-> TRUE,
                val |-> <<Branch(parts[1], is_current, is_remote, parts[2],
                                 IF Len(parts) >= 3 THEN parts[3] ELSE <<>>)>>]
          ELSE [ok |-> TRUE, val |-> <<>>]

RECURSIVE BranchLoop(_, _, _)
BranchLoop(lines, is_remote, branches) ==
  IF lines = <<>> THEN [ok |-> TRUE, val |-> branches]
  ELSE LET r == parse_branch_line(Head(lines), is_remote)
       IN IF r.ok THEN BranchLoop(Tail(lines), is_remote, branches \o r.val)
          ELSE [ok |-> FALSE, val |-> <<>>]

parse_branch_output(output, is_remote) == BranchLoop(Lines(output), is_remote, <<>>)

\* get_branches on the outputs of its two commands: the local listing, then
\* the remote listing when its command succeeded.
get_branches(local_output, remote_success, remote_output) ==
  LET branches == parse_branch_output(local_output, FALSE)
      remote_branches == parse_branch_output(remote_output, TRUE)
  IN IF ~branches.ok THEN branches
     ELSE IF ~remote_success THEN branches
     ELSE IF ~remote_branches.ok THEN remote_branches
     ELSE [ok |-> TRUE, val |-> branches.val \o remote_branches.val]

\* The inputs: up to MaxBranchLines lines per listing; verbose lines (marker
\* column, name, padding, hash, subject) and lines that are not.
MaxBranchLines == 1

BranchMarkers == {<<"*", " ">>, <<" ", " ">>}

BranchPaddings == {<<" ">>, <<" ", " ">>}

BranchSubjects == {<<>>, <<" ", "f", "i", "x">>}

VerboseBranchLines ==
  {m \o <<"o", "/", "m">> \o p \o <<"a", "1">> \o s :
     m \in BranchMarkers, p \in BranchPaddings, s \in BranchSubjects}

OddBranchLines ==
  {<<>>, <<"x">>, <<"*">>, <<EAcute>>, <<Kanji>>, <<" ", " ", "m">>,
   <<" ", " ", "o", "/", "H", "E", "A", "D", " ", "-", ">", " ", "o", "/", "m">>}

BranchTexts ==
  {Unlines(ls) : ls \in SeqsOf(VerboseBranchLines \cup OddBranchLines, 0, MaxBranchLines)}

InitBranches == input = <<>> /\ pc = "start" /\ ret = <<>> /\ NoApp

\* get_branches: the first command fails (an Err is returned), or both have
\* run and their outputs are parsed.
GetBranches ==
  /\ pc = "start"
  /\ UNCHANGED <<app, keys>>
  /\ \E local_output \in BranchTexts, remote_output \in BranchTexts,
        local_success \in BOOLEAN, remote_success \in BOOLEAN :
       LET r == get_branches(local_output, remote_success, remote_output)
       IN /\ input' = [local |-> local_output,
                       remote |-> IF local_success /\ remote_success
                                  THEN remote_output ELSE <<>>,
                       local_success |-> local_success,
                       remote_success |-> local_success /\ remote_success]
          /\ ret' = IF local_success THEN r.val ELSE <<>>
          /\ pc' = IF ~local_success THEN "failed"
                   ELSE IF r.ok THEN "returned" ELSE "panicked"

NextBranches == GetBranches

SpecBranches == InitBranches /\ [][NextBranches]_vars

(***************************************************************************)
(* The application state: App (src/ui/app.rs).  A method is an operator on *)
(* the App record; a method that calls the Gateway has several outcomes.    *)
(***************************************************************************)

\* Option<T>.
None == <<>>

Some(x) == <<x>>

\* What a method leaves behind: the App, the Gateway calls made, in order,
\* and how it ended: "Ok", "Err" (returned by the ? operator) or "Panic".
Outcome(a, calls, result) == [app |-> a, calls |-> calls, result |-> result]

Call(name, args, ok) == [name |-> name, args |-> args, ok |-> ok]

Done(a) == {Outcome(a, <<>>, "Ok")}

\* S; F: the method F run where S ended Ok.
Then(S, F(_)) ==
  UNION {IF r.result # "Ok" THEN {r}
         ELSE {Outcome(q.app, r.calls \o q.calls, q.result) : q \in F(r.app)} : r \in S}

\* The Gateway's answers.  A repository is the outputs of git log, git status,
\* git stash list and the two git branch listings; the Gateway returns what
\* the parsers make of the outputs of some repository, each read on its own.
\* A commit's diff is a function of its hash.
Repositories ==
  {[log |-> <<"*", " ", "1", "1", "1", "1", "1", "1", "1", " ", "m", "\n">>,
   status |-> <<>>,
   stash |-> <<>>,
   local |-> <<>>,
   remote |-> <<>>],
  [log |-> <<"*", " ", "1", "1", "1", "1", "1", "1", "1", " ", "m", "\n", "*", " ", "2", "2", "2", "2", "2", "2", "2", " ", "m", "\n">>,
   status |-> <<" ", "M", " ", "x", "\n">>,
   stash |-> <<"s", "t", "a", "s", "h", "@", "{", "0", "}", ":", " ", "O", "n", " ", "b", ":", " ", "m", "\n">>,
   local |-> <<"*", " ", "m", " ", "a", "1", "\n">>,
   remote |-> <<>>],
  [log |-> <<"*", " ", "1", "1", "1", "1", "1", "1", "1", " ", "m", "\n", "*", " ", "2", "2", "2", "2", "2", "2", "2", " ", "m", "\n">>,
   status |-> <<" ", "M", " ", "x", "\n", "M", " ", " ", "y", "\n">>,
   stash |-> <<"s", "t", "a", "s", "h", "@", "{", "0", "}", ":", " ", "O", "n", " ", "b", ":", " ", "m", "\n", "s", "t", "a", "s", "h", "@", "{", "1", "}", ":", " ", "W", "I", "P", " ", "o", "n", " ", "b", ":", " ", "m", "\n">>,
   local |-> <<"*", " ", "m", " ", "a", "1", "\n", " ", " ", "d", " ", "a", "1", "\n">>,
   remote |-> <<" ", " ", "o", "/", "m", " ", "a", "1", "\n">>],
  [log |-> <<"*", " ", "1", "1", "1", "1", "1", "1", "1", " ", "m", "\n">>,
   status |-> <<"M", "M", " ", "x", "\n", "M", " ", " ", "y", "\n">>,
   stash |-> <<"s", "t", "a", "s", "h", "@", "{", "0", "}", ":", " ", "O", "n", " ", "b", ":", " ", "m", "\n", "s", "t", "a", "s", "h", "@", "{", "1", "}", ":", " ", "W", "I", "P", " ", "o", "n", " ", "b", ":", " ", "m", "\n">>,
   local |-> <<"*", " ", "m", " ", "a", "1", "\n", " ", " ", "d", " ", "a", "1", "\n">>,
   remote |-> <<" ", " ", "o", "/", "m", " ", "a", "1", "\n">>]}

\* A filtered log can be empty.
CommitLists == {parse_log_output(r.log).val : r \in Repositories} \cup {<<>>}

StatusLists == {parse_status_output(r.status).val : r \in Repositories}

StashLists == {parse_stash_output(r.stash) : r \in Repositories}

BranchLists == {get_branches(r.local, TRUE, r.remote).val : r \in Repositories}

\* git show <hash>: two files for one commit, no file section for the others.
ShowText(hash) ==
  IF hash = <<"1", "1", "1", "1", "1", "1", "1">>
  THEN <<"d", "i", "f", "f", " ", "-", "-", "g", "i", "t", " ", "a", "/", "f", " ", "b", "/", "f", "\n", "@", "@", "\n", "+", "x", "\n", "d", "i", "f", "f", " ", "-", "-", "g", "i", "t", " ", "a", "/", "g", " ", "b", "/", "g", "\n", "@", "@", "\n", "-", "y", "\n">>
  ELSE <<"c", "o", "m", "m", "i", "t", " ">> \o hash \o <<"\n">>

CommitDiff(files) == [files |-> files]

\* The text git diff prints for a path of the work tree or of the index.
FileDiffText(path, staged) == [path |-> path, staged |-> staged]

LastCommitMessages == {<<"m">>}

\* Ok(msg) and format!("Error: {}", e) of a Gateway call.
GatewayMessage == "msg"

ErrorMessage == "Error: e"

\* App::new, after the four reads of main and App::new.
NewApp(commits, status_files, stashes, branches) ==
  [current_panel |-> "Status",
   commits |-> commits,
   list_state |-> IF commits = <<>> THEN None ELSE Some(0),
   show_diff |-> FALSE,
   current_diff |-> None,
   diff_scroll |-> 0,
   file_list_state |-> None,
   search_mode |-> FALSE,
   search_query |-> <<>>,
   active_filter |-> None,
   tree_view_mode |-> FALSE,
   tree_file_selected |-> FALSE,
   status_files |-> status_files,
   status_list_state |-> IF status_files = <<>> THEN None ELSE Some(0),
   commit_message_mode |-> FALSE,
   commit_message_input |-> <<>>,
   status_show_diff |-> FALSE,
   status_diff_content |-> None,
   status_diff_scroll |-> 0,
   stashes |-> stashes,
   stash_list_state |-> IF stashes = <<>> THEN None ELSE Some(0),
   stash_input_mode |-> FALSE,
   stash_message_input |-> <<>>,
   branches |-> branches,
   branch_list_state |-> IF branches = <<>> THEN None ELSE Some(0),
   new_branch_input_mode |-> FALSE,
   new_branch_name_input |-> <<>>,
   amend_mode |-> FALSE,
   help_visible |-> FALSE,
   should_quit |-> FALSE,
   branch_input_mode |-> FALSE,
   branch_name_input |-> <<>>,
   status_message |-> None,
   status_message_type |-> "Info"]

\* A plausible slip: index 0 selected in an empty list as well.
SelectFirstAlways(list) == Some(0)

\* let mut state = ListState::default(); if !list.is_empty() { state.select(Some(0)) }
SelectFirst(list) == IF list = <<>> THEN None ELSE Some(0)

\* A plausible slip: next stopping at the last element.
NextIndexClamped(selected, len) ==
  IF selected = None THEN 0
  ELSE IF selected[1] >= len - 1 THEN len - 1 ELSE selected[1] + 1

\* The match on selected() of the next and previous methods, len >= 1.
NextIndex(selected, len) ==
  IF selected = None THEN 0
  ELSE IF selected[1] >= len - 1 THEN 0 ELSE selected[1] + 1

PreviousIndex(selected, len) ==
  IF selected = None THEN 0
  ELSE IF selected[1] = 0 THEN len - 1 ELSE selected[1] - 1

next(a) ==
  IF a.commits = <<>> THEN a
  ELSE [a EXCEPT !.list_state = Some(NextIndex(a.list_state, Len(a.commits))),
                 !.diff_scroll = 0]

previous(a) ==
  IF a.commits = <<>> THEN a
  ELSE [a EXCEPT !.list_state = Some(PreviousIndex(a.list_state, Len(a.commits))),
                 !.diff_scroll = 0]

\* u16::saturating_sub and u16::saturating_add.
U16Max == 65535

SaturatingSub(x, n) == IF x < n THEN 0 ELSE x - n

SaturatingAdd(x, n) == IF x + n > U16Max THEN U16Max ELSE x + n

scroll_diff_up(a) == [a EXCEPT !.diff_scroll = SaturatingSub(@, 1)]

scroll_diff_down(a) == [a EXCEPT !.diff_scroll = SaturatingAdd(@, 1)]

scroll_diff_page_up(a) == [a EXCEPT !.diff_scroll = SaturatingSub(@, 10)]

scroll_diff_page_down(a) == [a EXCEPT !.diff_scroll = SaturatingAdd(@, 10)]

next_tree_file(a) ==
  IF a.current_diff = None \/ a.current_diff[1].files = <<>> THEN a
  ELSE [a EXCEPT !.file_list_state =
                   Some(NextIndex(a.file_list_state, Len(a.current_diff[1].files)))]

previous_tree_file(a) ==
  IF a.current_diff = None \/ a.current_diff[1].files = <<>> THEN a
  ELSE [a EXCEPT !.file_list_state =
                   Some(PreviousIndex(a.file_list_state, Len(a.current_diff[1].files)))]

\* next_file and previous_file also reset the scroll when they move.
next_file(a) ==
  IF a.current_diff = None \/ a.current_diff[1].files = <<>> THEN a
  ELSE [next_tree_file(a) EXCEPT !.diff_scroll = 0]

previous_file(a) ==
  IF a.current_diff = None \/ a.current_diff[1].files = <<>> THEN a
  ELSE [previous_tree_file(a) EXCEPT !.diff_scroll = 0]

\* let commit = &self.commits[index]; get_commit_diff(&commit.hash)?, then F
\* on the App and the diff; the indexing panics out of bounds.
WithCommitDiff(a, F(_, _)) ==
  IF a.list_state = None THEN Done(a)
  ELSE IF a.list_state[1] >= Len(a.commits) THEN {Outcome(a, <<>>, "Panic")}
  ELSE LET hash == a.commits[a.list_state[1] + 1].hash
           diff == CommitDiff(parse_commit_diff(ShowText(hash)))
       IN {Outcome(F(a, diff), <<Call("get_commit_diff", <<hash>>, TRUE)>>, "Ok"),
           Outcome(a, <<Call("get_commit_diff", <<hash>>, FALSE)>>, "Err")}

toggle_diff(a) ==
  IF a.show_diff
  THEN Done([a EXCEPT !.show_diff = FALSE, !.current_diff = None,
                      !.diff_scroll = 0, !.file_list_state = None])
  ELSE WithCommitDiff(a, LAMBDA b, diff :
         [b EXCEPT !.current_diff = Some(diff), !.show_diff = TRUE,
                   !.diff_scroll = 0, !.file_list_state = SelectFirst(diff.files)])

quit(a) ==
  IF a.show_diff
  THEN [a EXCEPT !.show_diff = FALSE, !.current_diff = None,
                 !.diff_scroll = 0, !.file_list_state = None]
  ELSE [a EXCEPT !.should_quit = TRUE]

SearchFilter(kind, text) == [kind |-> kind, text |-> text]

\* self.commits = get_commits(filter)?; the selection reset; then F.
ReloadCommits(a, F(_)) ==
  {Outcome(F([a EXCEPT !.commits = commits, !.list_state = SelectFirst(commits)]),
           <<Call("get_commits", a.active_filter, TRUE)>>, "Ok") : commits \in CommitLists}
    \cup {Outcome(a, <<Call("get_commits", a.active_filter, FALSE)>>, "Err")}

\* A plausible slip: the @ of an author search not recognised.
execute_search_message_only(a) ==
  LET filter == IF a.search_query = <<>> THEN None
                ELSE Some(SearchFilter("Message", a.search_query))
  IN ReloadCommits([a EXCEPT !.active_filter = filter],
                   LAMBDA b : [b EXCEPT !.search_mode = FALSE])

execute_search(a) ==
  LET filter == IF a.search_query = <<>> THEN None
                ELSE IF Head(a.search_query) = "@"
                THEN Some(SearchFilter("Author", Tail(a.search_query)))
                ELSE Some(SearchFilter("Message", a.search_query))
  IN ReloadCommits([a EXCEPT !.active_filter = filter],
                   LAMBDA b : [b EXCEPT !.search_mode = FALSE])

clear_search(a) ==
  ReloadCommits([a EXCEPT !.active_filter = None, !.search_query = <<>>],
                LAMBDA b : b)

toggle_tree_view(a) ==
  IF a.tree_view_mode
  THEN Done([a EXCEPT !.tree_view_mode = FALSE, !.tree_file_selected = FALSE,
                      !.current_diff = None, !.file_list_state = None,
                      !.diff_scroll = 0])
  ELSE WithCommitDiff(a, LAMBDA b, diff :
         [b EXCEPT !.current_diff = Some(diff),
                   !.file_list_state = SelectFirst(diff.files),
                   !.tree_view_mode = TRUE, !.tree_file_selected = FALSE,
                   !.diff_scroll = 0])

select_tree_file(a) ==
  [a EXCEPT !.tree_file_selected = ~@, !.diff_scroll = 0]

\* A plausible slip: Esc closing tree view from either sub-view.
exit_tree_view_closing(a) ==
  [a EXCEPT !.tree_view_mode = FALSE, !.current_diff = None, !.file_list_state = None]

exit_tree_view(a) ==
  IF a.tree_file_selected
  THEN [a EXCEPT !.tree_file_selected = FALSE, !.diff_scroll = 0]
  ELSE [a EXCEPT !.tree_view_mode = FALSE, !.current_diff = None,
                 !.file_list_state = None]

set_status(a, message, message_type) ==
  [a EXCEPT !.status_message = Some(message), !.status_message_type = message_type]

\* A plausible slip: Esc clearing the filter together with the message.
clear_status_and_filter(a) == [a EXCEPT !.status_message = None, !.active_filter = None]

clear_status(a) == [a EXCEPT !.status_message = None]

\* The pattern of the mutating methods: match the Gateway call's result,
\* Ok(msg) => set_status(msg, ok_type) and the refreshes, Err(e) =>
\* set_status("Error: e", Error).
Mutation(a, name, args, ok_type, Refresh(_)) ==
  Then({Outcome(set_status(a, GatewayMessage, ok_type), <<Call(name, args, TRUE)>>, "Ok")},
       Refresh)
    \cup {Outcome(set_status(a, ErrorMessage, "Error"), <<Call(name, args, FALSE)>>, "Ok")}

\* let commit = &self.commits[index]: the hash of the selected commit.
SelectedHash(a) == a.commits[a.list_state[1] + 1].hash

\* A method on the selected commit: nothing without a selection, a panic when
\* the selection is out of bounds.
OnSelectedCommit(a, name, ok_type) ==
  IF a.list_state = None THEN Done(a)
  ELSE IF a.list_state[1] >= Len(a.commits) THEN {Outcome(a, <<>>, "Panic")}
  ELSE Mutation(a, name, <<SelectedHash(a)>>, ok_type, Done)

\* arboard: the clipboard is reached and set, or one of the two fails.
copy_commit_hash(a) ==
  IF a.list_state = None THEN Done(a)
  ELSE IF a.list_state[1] >= Len(a.commits) THEN {Outcome(a, <<>>, "Panic")}
  ELSE {Outcome(set_status(a, "Copied hash", "Success"), <<>>, "Ok"),
        Outcome(set_status(a, "Failed to copy to clipboard", "Error"), <<>>, "Ok"),
        Outcome(set_status(a, "Failed to access clipboard", "Error"), <<>>, "Ok")}

checkout_selected_commit(a) == OnSelectedCommit(a, "checkout_commit", "Success")

\* The words cherry_pick, revert_commit and merge_branch look for in stderr.
ConflictLower == <<"c", "o", "n", "f", "l", "i", "c", "t">>

ConflictUpper == <<"C", "O", "N", "F", "L", "I", "C", "T">>

\* error.contains("conflict") || error.contains("CONFLICT")
HasConflictSignature(error) ==
  ContainsStr(error, ConflictLower) \/ ContainsStr(error, ConflictUpper)

\* What git writes to stderr when cherry-pick, revert or merge fails.
ErrorTexts ==
  {ConflictLower, ConflictUpper,
   <<"C", "o", "n", "f", "l", "i", "c", "t">>,
   <<"f", "a", "t", "a", "l">>}

\* The command ran: success, or a failure with its stderr.
CommandRuns ==
  {[success |-> TRUE, error |-> <<>>]}
    \cup {[success |-> FALSE, error |-> e] : e \in ErrorTexts}

\* The result of cherry_pick, revert_commit and merge_branch on a run of the
\* command: Ok(guidance) on a failure with the conflict signature, Err on
\* any other failure, Ok(done) on success.
ConflictAware(run, guidance, done) ==
  IF ~run.success
  THEN IF HasConflictSignature(run.error) THEN [ok |-> TRUE, msg |-> guidance]
       ELSE [ok |-> FALSE, msg |-> ErrorMessage]
  ELSE [ok |-> TRUE, msg |-> done]

cherry_pick(run) ==
  ConflictAware(run,
    "Cherry-pick has conflicts. Resolve them and run 'git cherry-pick --continue'",
    GatewayMessage)

revert_commit(run) ==
  ConflictAware(run,
    "Revert has conflicts. Resolve them and run 'git revert --continue'",
    GatewayMessage)

merge_branch(run) ==
  ConflictAware(run,
    "Merge has conflicts. Resolve them and run 'git merge --continue'",
    GatewayMessage)

\* The Gateway call of a command that ran: its result and the run behind it.
CommandCall(name, args, run, ok) ==
  [name |-> name, args |-> args, ok |-> ok, run |-> run]

\* A method on the selected commit whose Gateway call is the result of some
\* run: Ok(msg) => set_status(msg, ok_type), Err(e) => set_status("Error: e",
\* Error).
OnSelectedCommitRun(a, name, result, ok_type) ==
  IF a.list_state = None THEN Done(a)
  ELSE IF a.list_state[1] >= Len(a.commits) THEN {Outcome(a, <<>>, "Panic")}
  ELSE {Outcome(set_status(a, result[run].msg,
                           IF result[run].ok THEN ok_type ELSE "Error"),
                <<CommandCall(name, <<SelectedHash(a)>>, run, result[run].ok)>>, "Ok") :
          run \in CommandRuns}

cherry_pick_commit(a) ==
  OnSelectedCommitRun(a, "cherry_pick", [run \in CommandRuns |-> cherry_pick(run)], "Info")

revert_selected_commit(a) ==
  OnSelectedCommitRun(a, "revert_commit", [run \in CommandRuns |-> revert_commit(run)],
                      "Info")

\* Both arms of the match leave branch_input_mode false.
create_branch_from_commit(a) ==
  IF a.branch_name_input = <<>>
  THEN Done([set_status(a, "Branch name cannot be empty", "Error")
               EXCEPT !.branch_input_mode = FALSE])
  ELSE IF a.list_state = None THEN Done(a)
  ELSE IF a.list_state[1] >= Len(a.commits) THEN {Outcome(a, <<>>, "Panic")}
  ELSE Mutation([a EXCEPT !.branch_input_mode = FALSE], "create_branch",
                <<a.branch_name_input, SelectedHash(a)>>, "Success", Done)

\* A plausible slip: the status line cleared on the way to another panel.
switch_to_panel_clearing(a, panel) ==
  [a EXCEPT !.current_panel = panel, !.status_message = None]

switch_to_panel(a, panel) == [a EXCEPT !.current_panel = panel]

refresh_status(a) ==
  {Outcome([a EXCEPT !.status_files = files, !.status_list_state = SelectFirst(files)],
           <<Call("get_status", <<>>, TRUE)>>, "Ok") : files \in StatusLists}
    \cup {Outcome(set_status(a, "Failed to refresh status", "Error"),
                  <<Call("get_status", <<>>, FALSE)>>, "Ok")}

refresh_stashes(a) ==
  {Outcome([a EXCEPT !.stashes = stashes, !.stash_list_state = SelectFirst(stashes)],
           <<Call("get_stashes", <<>>, TRUE)>>, "Ok") : stashes \in StashLists}
    \cup {Outcome(set_status(a, "Failed to refresh stashes", "Error"),
                  <<Call("get_stashes", <<>>, FALSE)>>, "Ok")}

refresh_branches(a) ==
  {Outcome([a EXCEPT !.branches = branches, !.branch_list_state = SelectFirst(branches)],
           <<Call("get_branches", <<>>, TRUE)>>, "Ok") : branches \in BranchLists}
    \cup {Outcome(set_status(a, "Failed to refresh branches", "Error"),
                  <<Call("get_branches", <<>>, FALSE)>>, "Ok")}

\* status_files.iter().partition(|f| f.staged)
Staged(status_files) == SelectSeq(status_files, LAMBDA f : f.staged)

Unstaged(status_files) == SelectSeq(status_files, LAMBDA f : ~f.staged)

\* The file index of a row of the Status list, None for a header row and
\* past the last row.
list_index_to_file_index(a, list_idx) ==
  LET staged == Len(Staged(a.status_files))
      unstaged == Len(Unstaged(a.status_files))
      unstaged_header == IF staged > 0 THEN staged + 1 ELSE 0
  IN IF staged > 0 /\ list_idx = 0 THEN None
     ELSE IF staged > 0 /\ list_idx <= staged THEN Some(list_idx - 1)
     ELSE IF unstaged > 0 /\ list_idx = unstaged_header THEN None
     ELSE IF unstaged > 0 /\ list_idx > unstaged_header
                          /\ list_idx <= unstaged_header + unstaged
     THEN Some(staged + (list_idx - unstaged_header - 1))
     ELSE None

get_status_list_len(a) ==
  IF a.status_files = <<>> THEN 1
  ELSE LET staged == Len(Staged(a.status_files))
           unstaged == Len(Unstaged(a.status_files))
       IN (IF staged > 0 THEN 1 + staged ELSE 0)
            + (IF unstaged > 0 THEN 1 + unstaged ELSE 0)

next_status_file(a) ==
  LET list_len == get_status_list_len(a)
  IN IF list_len = 0 THEN a
     ELSE [a EXCEPT !.status_list_state = Some(NextIndex(@, list_len))]

previous_status_file(a) ==
  LET list_len == get_status_list_len(a)
  IN IF list_len = 0 THEN a
     ELSE [a EXCEPT !.status_list_state = Some(PreviousIndex(@, list_len))]

\* The StatusFile the stage, discard and diff methods act on for a row:
\* list_index_to_file_index(list_idx), then status_files.get(file_idx).
StatusFileAt(a, list_idx) ==
  LET file_idx == list_index_to_file_index(a, list_idx)
  IN IF file_idx = None \/ file_idx[1] >= Len(a.status_files) THEN None
     ELSE Some(a.status_files[file_idx[1] + 1])

SelectedStatusFile(a) ==
  IF a.status_list_state = None THEN None
  ELSE StatusFileAt(a, a.status_list_state[1])

\* render_status_panel: the rows of the Status list, a header before each
\* non-empty group, or the one row of an empty collection.
StatusRows(status_files) ==
  LET Group(header, files) ==
        IF files = <<>> THEN <<>>
        ELSE <<[header |-> header]>> \o [i \in DOMAIN files |-> [file |-> files[i]]]
      items == Group("Staged Changes:", Staged(status_files))
                 \o Group("Unstaged Changes:", Unstaged(status_files))
  IN IF items = <<>> THEN <<[header |-> "No changes"]>> ELSE items

toggle_stage(a) ==
  LET file == SelectedStatusFile(a)
  IN IF file = None THEN Done(a)
     ELSE Mutation(a, IF file[1].staged THEN "unstage_file" ELSE "stage_file",
                   <<file[1].path>>, "Success", refresh_status)

\* A plausible slip: the status refreshed after a failed stage_all as well.
stage_all_files_refreshing(a) ==
  Then(Mutation(a, "stage_all", <<>>, "Success", Done), refresh_status)

stage_all_files(a) == Mutation(a, "stage_all", <<>>, "Success", refresh_status)

unstage_all_files(a) == Mutation(a, "unstage_all", <<>>, "Success", refresh_status)

\* A plausible slip: the commit made without the test on the empty message.
execute_commit_unchecked(a) ==
  Mutation([a EXCEPT !.commit_message_mode = FALSE, !.amend_mode = FALSE],
           IF a.amend_mode THEN "commit_amend" ELSE "commit",
           <<a.commit_message_input>>, "Success", refresh_status)

\* Every path through execute_commit leaves both mode flags false.
execute_commit(a) ==
  LET b == [a EXCEPT !.commit_message_mode = FALSE, !.amend_mode = FALSE]
  IN IF a.commit_message_input = <<>>
     THEN Done(set_status(b, "Commit message cannot be empty", "Error"))
     ELSE Mutation(b, IF a.amend_mode THEN "commit_amend" ELSE "commit",
                   <<a.commit_message_input>>, "Success", refresh_status)

enter_amend_mode(a) ==
  {Outcome([a EXCEPT !.amend_mode = TRUE, !.commit_message_mode = TRUE,
                     !.commit_message_input = msg],
           <<Call("get_last_commit_message", <<>>, TRUE)>>, "Ok") : msg \in LastCommitMessages}
    \cup {Outcome(set_status(a, ErrorMessage, "Error"),
                  <<Call("get_last_commit_message", <<>>, FALSE)>>, "Ok")}

discard_selected_file(a) ==
  LET file == SelectedStatusFile(a)
  IN IF file = None THEN Done(a)
     ELSE IF file[1].staged
     THEN Done(set_status(a, "Cannot discard staged file. Unstage it first.", "Error"))
     ELSE Mutation(a, "discard_file", <<file[1].path>>, "Success", refresh_status)

toggle_status_diff(a) ==
  LET file == SelectedStatusFile(a)
      shown == [a EXCEPT !.status_show_diff = ~@]
  IN IF a.status_show_diff
     THEN Done([shown EXCEPT !.status_diff_content = None, !.status_diff_scroll = 0])
     ELSE IF file = None THEN Done(shown)
     ELSE {Outcome([shown EXCEPT !.status_diff_content =
                                   Some(FileDiffText(file[1].path, file[1].staged))],
                   <<Call("get_file_diff", <<file[1].path, file[1].staged>>, TRUE)>>, "Ok"),
           Outcome([set_status(shown, "Failed to load diff", "Error")
                      EXCEPT !.status_show_diff = FALSE],
                   <<Call("get_file_diff", <<file[1].path, file[1].staged>>, FALSE)>>, "Ok")}

scroll_status_diff_up(a) ==
  [a EXCEPT !.status_diff_scroll = IF @ > 0 THEN @ - 1 ELSE @]

\* status_diff_scroll += 1: at u16::MAX a panic with overflow checks, zero
\* without them.
scroll_status_diff_down(a) ==
  IF a.status_diff_scroll = U16Max
  THEN {Outcome(a, <<>>, "Panic"), Outcome([a EXCEPT !.status_diff_scroll = 0], <<>>, "Ok")}
  ELSE Done([a EXCEPT !.status_diff_scroll = @ + 1])

scroll_status_diff_page_up(a) == [a EXCEPT !.status_diff_scroll = SaturatingSub(@, 10)]

scroll_status_diff_page_down(a) == [a EXCEPT !.status_diff_scroll = SaturatingAdd(@, 10)]

next_stash(a) ==
  IF a.stashes = <<>> THEN a
  ELSE [a EXCEPT !.stash_list_state = Some(NextIndex(@, Len(a.stashes)))]

previous_stash(a) ==
  IF a.stashes = <<>> THEN a
  ELSE [a EXCEPT !.stash_list_state = Some(PreviousIndex(@, Len(a.stashes)))]

\* apply, pop and drop: self.stashes.get(index), then the Gateway call on
\* that entry's index field.
OnSelectedStash(a, name, Refresh(_)) ==
  IF a.stash_list_state = None \/ a.stash_list_state[1] >= Len(a.stashes) THEN Done(a)
  ELSE Mutation(a, name, <<a.stashes[a.stash_list_state[1] + 1].index>>, "Success", Refresh)

apply_selected_stash(a) == OnSelectedStash(a, "apply_stash", refresh_status)

pop_selected_stash(a) ==
  OnSelectedStash(a, "pop_stash", LAMBDA b : Then(refresh_status(b), refresh_stashes))

drop_selected_stash(a) == OnSelectedStash(a, "drop_stash", refresh_stashes)

\* Both arms of the match leave stash_input_mode false.
execute_create_stash(a) ==
  Mutation([a EXCEPT !.stash_input_mode = FALSE], "create_stash",
           <<IF a.stash_message_input = <<>> THEN None ELSE Some(a.stash_message_input), FALSE>>,
           "Success", LAMBDA b : Then(refresh_status(b), refresh_stashes))

next_branch(a) ==
  IF a.branches = <<>> THEN a
  ELSE [a EXCEPT !.branch_list_state = Some(NextIndex(@, Len(a.branches)))]

previous_branch(a) ==
  IF a.branches = <<>> THEN a
  ELSE [a EXCEPT !.branch_list_state = Some(PreviousIndex(@, Len(a.branches)))]

\* self.branches.get(index) for the selected row, or None.
SelectedBranch(a) ==
  IF a.branch_list_state = None \/ a.branch_list_state[1] >= Len(a.branches) THEN None
  ELSE Some(a.branches[a.branch_list_state[1] + 1])

switch_to_selected_branch(a) ==
  LET branch == SelectedBranch(a)
  IN IF branch = None THEN Done(a)
     ELSE IF branch[1].is_current
     THEN Done(set_status(a, "Already on this branch", "Info"))
     ELSE Mutation(a, "switch_branch", <<branch[1].name>>, "Success", refresh_branches)

\* A plausible slip: the guard on remote branches left out.
delete_selected_branch_unguarded(a) ==
  LET branch == SelectedBranch(a)
  IN IF branch = None THEN Done(a)
     ELSE IF branch[1].is_current
     THEN Done(set_status(a, "Cannot delete current branch", "Error"))
     ELSE Mutation(a, "delete_branch", <<branch[1].name, FALSE>>, "Success", refresh_branches)

delete_selected_branch(a) ==
  LET branch == SelectedBranch(a)
  IN IF branch = None THEN Done(a)
     ELSE IF branch[1].is_current
     THEN Done(set_status(a, "Cannot delete current branch", "Error"))
     ELSE IF branch[1].is_remote
     THEN Done(set_status(a, "Cannot delete remote branches from this view", "Error"))
     ELSE Mutation(a, "delete_branch", <<branch[1].name, FALSE>>, "Success", refresh_branches)

merge_selected_branch(a) ==
  LET branch == SelectedBranch(a)
  IN IF branch = None THEN Done(a)
     ELSE IF branch[1].is_current
     THEN Done(set_status(a, "Cannot merge a branch into itself", "Error"))
     ELSE UNION {
            LET result == merge_branch(run)
                call == CommandCall("merge_branch", <<branch[1].name>>, run, result.ok)
            IN IF result.ok
               THEN Then(Then({Outcome(set_status(a, result.msg, "Success"), <<call>>, "Ok")},
                              refresh_branches),
                         refresh_status)
               ELSE {Outcome(set_status(a, result.msg, "Error"), <<call>>, "Ok")} :
            run \in CommandRuns}

\* Both arms of the match leave new_branch_input_mode false.
execute_create_new_branch(a) ==
  IF a.new_branch_name_input = <<>>
  THEN Done([set_status(a, "Branch name cannot be empty", "Error")
               EXCEPT !.new_branch_input_mode = FALSE])
  ELSE Mutation([a EXCEPT !.new_branch_input_mode = FALSE], "create_new_branch",
                <<a.new_branch_name_input>>, "Success", refresh_branches)

fetch_from_remote(a) == Mutation(a, "fetch", <<>>, "Success", refresh_branches)

push_to_remote(a) == Mutation(a, "push", <<FALSE>>, "Success", Done)

pull_from_remote(a) ==
  Mutation(a, "pull", <<FALSE>>, "Success",
           LAMBDA b : Then(refresh_status(b), refresh_branches))

(***************************************************************************)
(* The key handlers (src/input.rs).  A KeyCode is a string: one character  *)
(* for KeyCode::Char(c), a name for the other keys; Tab and z are bound to *)
(* nothing.                                                                 *)
(***************************************************************************)

CharKeys ==
  {"q", "?", "1", "2", "3", "4", " ", "a", "u", "c", "A", "x", "s", "j", "k", "t",
   "/", "y", "b", "p", "r", "f", "P", "U", "h", "l", "d", "n", "m", "@", "z"}

\* The keys pressed outside the text modes: every key the handlers match, and
\* z for the keys they do not (Tab, Backspace and @ fall in the same arm).
KeyCodes ==
  (CharKeys \ {"@"}) \cup {"Esc", "Enter", "PageUp", "PageDown",
                           "Up", "Down", "Left", "Right"}

\* String::pop.
Pop(s) == IF s = <<>> THEN s ELSE SubSeq(s, 1, Len(s) - 1)

\* exit_search_mode, execute_search, delete_search_char, add_search_char.
handle_search_mode(a, key_code) ==
  CASE key_code = "Esc" -> Done([a EXCEPT !.search_mode = FALSE])
    [] key_code = "Enter" -> execute_search(a)
    [] key_code = "Backspace" -> Done([a EXCEPT !.search_query = Pop(@)])
    [] key_code \in CharKeys -> Done([a EXCEPT !.search_query = Append(@, key_code)])
    [] OTHER -> Done(a)

\* exit_branch_input_mode, create_branch_from_commit, delete_branch_char,
\* add_branch_char.
handle_branch_input_mode(a, key_code) ==
  CASE key_code = "Esc" -> Done([a EXCEPT !.branch_input_mode = FALSE])
    [] key_code = "Enter" -> create_branch_from_commit(a)
    [] key_code = "Backspace" -> Done([a EXCEPT !.branch_name_input = Pop(@)])
    [] key_code \in CharKeys -> Done([a EXCEPT !.branch_name_input = Append(@, key_code)])
    [] OTHER -> Done(a)

\* A plausible slip: Esc leaving the amend flag up.
handle_commit_message_mode_keeping_amend(a, key_code) ==
  CASE key_code = "Esc" -> Done([a EXCEPT !.commit_message_mode = FALSE])
    [] key_code = "Enter" -> execute_commit(a)
    [] key_code = "Backspace" -> Done([a EXCEPT !.commit_message_input = Pop(@)])
    [] key_code \in CharKeys -> Done([a EXCEPT !.commit_message_input = Append(@, key_code)])
    [] OTHER -> Done(a)

\* exit_commit_message_mode, execute_commit, delete_commit_char, add_commit_char.
handle_commit_message_mode(a, key_code) ==
  CASE key_code = "Esc" ->
         Done([a EXCEPT !.commit_message_mode = FALSE, !.amend_mode = FALSE])
    [] key_code = "Enter" -> execute_commit(a)
    [] key_code = "Backspace" -> Done([a EXCEPT !.commit_message_input = Pop(@)])
    [] key_code \in CharKeys -> Done([a EXCEPT !.commit_message_input = Append(@, key_code)])
    [] OTHER -> Done(a)

\* exit_stash_input_mode, execute_create_stash, delete_stash_char, add_stash_char.
handle_stash_input_mode(a, key_code) ==
  CASE key_code = "Esc" -> Done([a EXCEPT !.stash_input_mode = FALSE])
    [] key_code = "Enter" -> execute_create_stash(a)
    [] key_code = "Backspace" -> Done([a EXCEPT !.stash_message_input = Pop(@)])
    [] key_code \in CharKeys -> Done([a EXCEPT !.stash_message_input = Append(@, key_code)])
    [] OTHER -> Done(a)

\* exit_new_branch_mode, execute_create_new_branch, delete_new_branch_char,
\* add_new_branch_char.
handle_new_branch_mode(a, key_code) ==
  CASE key_code = "Esc" -> Done([a EXCEPT !.new_branch_input_mode = FALSE])
    [] key_code = "Enter" -> execute_create_new_branch(a)
    [] key_code = "Backspace" -> Done([a EXCEPT !.new_branch_name_input = Pop(@)])
    [] key_code \in CharKeys -> Done([a EXCEPT !.new_branch_name_input = Append(@, key_code)])
    [] OTHER -> Done(a)

\* enter_commit_message_mode and enter_stash_input_mode set the flag and
\* clear the buffer.
handle_status_panel(a, key_code) ==
  CASE key_code = " " -> toggle_stage(a)
    [] key_code = "a" -> stage_all_files(a)
    [] key_code = "u" -> unstage_all_files(a)
    [] key_code = "c" ->
         Done([a EXCEPT !.commit_message_mode = TRUE, !.commit_message_input = <<>>])
    [] key_code = "A" -> enter_amend_mode(a)
    [] key_code = "x" -> discard_selected_file(a)
    [] key_code = "s" ->
         Done([a EXCEPT !.stash_input_mode = TRUE, !.stash_message_input = <<>>])
    [] key_code = "Enter" -> toggle_status_diff(a)
    [] key_code = "PageUp" ->
         Done(IF a.status_show_diff THEN scroll_status_diff_page_up(a) ELSE a)
    [] key_code = "PageDown" ->
         Done(IF a.status_show_diff THEN scroll_status_diff_page_down(a) ELSE a)
    [] key_code \in {"Down", "j"} ->
         IF a.status_show_diff THEN scroll_status_diff_down(a)
         ELSE Done(next_status_file(a))
    [] key_code \in {"Up", "k"} ->
         Done(IF a.status_show_diff THEN scroll_status_diff_up(a)
              ELSE previous_status_file(a))
    [] OTHER -> Done(a)

\* enter_search_mode and enter_branch_input_mode set the flag and clear the
\* buffer.
handle_log_panel(a, key_code) ==
  CASE key_code = "t" -> toggle_tree_view(a)
    [] key_code = "/" -> Done([a EXCEPT !.search_mode = TRUE, !.search_query = <<>>])
    [] key_code = "y" -> copy_commit_hash(a)
    [] key_code = "c" -> checkout_selected_commit(a)
    [] key_code = "b" ->
         Done([a EXCEPT !.branch_input_mode = TRUE, !.branch_name_input = <<>>])
    [] key_code = "p" -> cherry_pick_commit(a)
    [] key_code = "r" -> revert_selected_commit(a)
    [] key_code = "f" -> fetch_from_remote(a)
    [] key_code = "P" -> push_to_remote(a)
    [] key_code = "U" -> pull_from_remote(a)
    [] key_code = "PageUp" -> Done(IF a.show_diff THEN scroll_diff_page_up(a) ELSE a)
    [] key_code = "PageDown" -> Done(IF a.show_diff THEN scroll_diff_page_down(a) ELSE a)
    [] key_code \in {"Down", "j"} ->
         Done(IF a.show_diff THEN scroll_diff_down(a) ELSE next(a))
    [] key_code \in {"Up", "k"} ->
         Done(IF a.show_diff THEN scroll_diff_up(a) ELSE previous(a))
    [] key_code \in {"Left", "h"} -> Done(IF a.show_diff THEN previous_file(a) ELSE a)
    [] key_code \in {"Right", "l"} -> Done(IF a.show_diff THEN next_file(a) ELSE a)
    [] key_code = "Enter" -> toggle_diff(a)
    [] OTHER -> Done(a)

handle_stash_panel(a, key_code) ==
  CASE key_code = "a" -> apply_selected_stash(a)
    [] key_code = "p" -> pop_selected_stash(a)
    [] key_code = "d" -> drop_selected_stash(a)
    [] key_code \in {"Down", "j"} -> Done(next_stash(a))
    [] key_code \in {"Up", "k"} -> Done(previous_stash(a))
    [] OTHER -> Done(a)

\* enter_new_branch_mode sets the flag and clears the buffer.
handle_branches_panel(a, key_code) ==
  CASE key_code = "Enter" -> switch_to_selected_branch(a)
    [] key_code = "d" -> delete_selected_branch(a)
    [] key_code = "n" ->
         Done([a EXCEPT !.new_branch_input_mode = TRUE, !.new_branch_name_input = <<>>])
    [] key_code = "m" -> merge_selected_branch(a)
    [] key_code \in {"Down", "j"} -> Done(next_branch(a))
    [] key_code \in {"Up", "k"} -> Done(previous_branch(a))
    [] OTHER -> Done(a)

\* A plausible slip: tree view giving its keys to the Log panel's handler.
handle_tree_view_mode_as_log_panel(a, key_code) == handle_log_panel(a, key_code)

handle_tree_view_mode(a, key_code) ==
  CASE key_code = "q" -> Done(quit(a))
    [] key_code = "?" -> Done([a EXCEPT !.help_visible = TRUE])
    [] key_code = "t" -> toggle_tree_view(a)
    [] key_code = "Esc" -> Done(exit_tree_view(a))
    [] key_code = "PageUp" ->
         Done(IF a.tree_file_selected THEN scroll_diff_page_up(a) ELSE a)
    [] key_code = "PageDown" ->
         Done(IF a.tree_file_selected THEN scroll_diff_page_down(a) ELSE a)
    [] key_code \in {"Down", "j"} ->
         Done(IF a.tree_file_selected THEN scroll_diff_down(a) ELSE next_tree_file(a))
    [] key_code \in {"Up", "k"} ->
         Done(IF a.tree_file_selected THEN scroll_diff_up(a) ELSE previous_tree_file(a))
    [] key_code = "Enter" -> Done(select_tree_file(a))
    [] OTHER -> Done(a)

handle_normal_mode(a, key_code) ==
  CASE key_code = "q" -> Done(quit(a))
    [] key_code = "?" -> Done([a EXCEPT !.help_visible = TRUE])
    [] key_code = "1" -> Done(switch_to_panel(a, "Status"))
    [] key_code = "2" -> Done(switch_to_panel(a, "Log"))
    [] key_code = "3" -> Done(switch_to_panel(a, "Stash"))
    [] key_code = "4" -> Done(switch_to_panel(a, "Branches"))
    [] key_code = "Esc" ->
         IF a.status_message # None THEN Done(clear_status(a))
         ELSE IF a.active_filter # None THEN clear_search(a)
         ELSE Done(quit(a))
    [] OTHER ->
         CASE a.current_panel = "Status" -> handle_status_panel(a, key_code)
           [] a.current_panel = "Log" -> handle_log_panel(a, key_code)
           [] a.current_panel = "Stash" -> handle_stash_panel(a, key_code)
           [] a.current_panel = "Branches" -> handle_branches_panel(a, key_code)

\* A plausible slip: the help popup not asked first.
ModeUnderHelp(a) ==
  IF a.search_mode THEN "Search"
  ELSE IF a.branch_input_mode THEN "BranchInput"
  ELSE IF a.commit_message_mode THEN "CommitMessage"
  ELSE IF a.stash_input_mode THEN "StashInput"
  ELSE IF a.new_branch_input_mode THEN "NewBranch"
  ELSE IF a.tree_view_mode THEN "TreeView"
  ELSE "Normal"

\* The branch handle_key_event takes: the help popup first, then the input
\* modes in the order of the if chain, then tree view, then normal.
Mode(a) ==
  IF a.help_visible THEN "Help"
  ELSE IF a.search_mode THEN "Search"
  ELSE IF a.branch_input_mode THEN "BranchInput"
  ELSE IF a.commit_message_mode THEN "CommitMessage"
  ELSE IF a.stash_input_mode THEN "StashInput"
  ELSE IF a.new_branch_input_mode THEN "NewBranch"
  ELSE IF a.tree_view_mode THEN "TreeView"
  ELSE "Normal"

\* handle_key_event while the help popup is visible: ? and Esc close it, any
\* other key does nothing, and the function returns.
handle_help_popup(a, key_code) ==
  Done(IF key_code \in {"?", "Esc"} THEN [a EXCEPT !.help_visible = FALSE] ELSE a)

(***************************************************************************)
(* The session: main builds the App, run_app reads keys until should_quit  *)
(* or an error.                                                             *)
(***************************************************************************)

\* The number of key events of a session.
MaxKeys == 4

\* The keys pressed while a text is typed: the four the text handlers match,
\* characters, and a key bound to nothing.
TextKeys == {"Esc", "Enter", "Backspace", "Tab", "x", "@", "?"}

\* main: get_commits(None), no session on an empty history; then App::new
\* with get_status, get_stashes and get_branches, in some repository.
Init ==
  /\ \E r \in Repositories :
       app = NewApp(parse_log_output(r.log).val, parse_status_output(r.status).val,
                    parse_stash_output(r.stash), get_branches(r.local, TRUE, r.remote).val)
  /\ input = ""
  /\ ret = <<>>
  /\ pc = "running"
  /\ keys = 0

\* run_app goes on reading keys until should_quit, an Err or a panic.
Running == pc = "running" /\ keys < MaxKeys

\* The end of one turn of the loop of run_app: the outcome r of the handler
\* of key_code; the loop ends on should_quit, on an Err and on a panic.
Turn(key_code, r) ==
  /\ app' = r.app
  /\ ret' = r.calls
  /\ input' = key_code
  /\ keys' = keys + 1
  /\ pc' = IF r.result = "Panic" THEN "panicked"
           ELSE IF r.result = "Err" THEN "failed"
           ELSE IF r.app.should_quit THEN "exited"
           ELSE "running"

\* handle_key_event, one action for each branch of its if chain.
HelpKey ==
  /\ Running /\ Mode(app) = "Help"
  /\ \E key_code \in KeyCodes :
       \E r \in handle_help_popup(app, key_code) : Turn(key_code, r)

SearchKey ==
  /\ Running /\ Mode(app) = "Search"
  /\ \E key_code \in TextKeys :
       \E r \in handle_search_mode(app, key_code) : Turn(key_code, r)

BranchInputKey ==
  /\ Running /\ Mode(app) = "BranchInput"
  /\ \E key_code \in TextKeys :
       \E r \in handle_branch_input_mode(app, key_code) : Turn(key_code, r)

CommitMessageKey ==
  /\ Running /\ Mode(app) = "CommitMessage"
  /\ \E key_code \in TextKeys :
       \E r \in handle_commit_message_mode(app, key_code) : Turn(key_code, r)

StashInputKey ==
  /\ Running /\ Mode(app) = "StashInput"
  /\ \E key_code \in TextKeys :
       \E r \in handle_stash_input_mode(app, key_code) : Turn(key_code, r)

NewBranchKey ==
  /\ Running /\ Mode(app) = "NewBranch"
  /\ \E key_code \in TextKeys :
       \E r \in handle_new_branch_mode(app, key_code) : Turn(key_code, r)

TreeViewKey ==
  /\ Running /\ Mode(app) = "TreeView"
  /\ \E key_code \in KeyCodes :
       \E r \in handle_tree_view_mode(app, key_code) : Turn(key_code, r)

NormalKey ==
  /\ Running /\ Mode(app) = "Normal"
  /\ \E key_code \in KeyCodes :
       \E r \in handle_normal_mode(app, key_code) : Turn(key_code, r)

Next ==
  \/ HelpKey
  \/ SearchKey
  \/ BranchInputKey
  \/ CommitMessageKey
  \/ StashInputKey
  \/ NewBranchKey
  \/ TreeViewKey
  \/ NormalKey

Spec == Init /\ [][Next]_vars

(***************************************************************************)
(* The commit-diff parser's claims.                                         *)
(***************************************************************************)

\* The positions of the marker lines among lines L, in ascending order.
MarkerPositions(L) == {i \in DOMAIN L : StartsWith(L[i], DiffGit)}

RECURSIVE Ascending(_)
Ascending(S) == IF S = {} THEN <<>> ELSE <<Min(S)>> \o Ascending(S \ {Min(S)})

\* The lines of L after the k-th marker, up to the next marker or the end;
\* at holds the marker positions in ascending order.
SectionLines(L, at, k) ==
  SubSeq(L, at[k] + 1, IF k < Len(at) THEN at[k + 1] - 1 ELSE Len(L))

\* C7: the result is never empty: one FileDiff per marker line, in marker
\* order and holding nothing from before the first marker, or, without a
\* marker, the one FileDiff named (no changes).
C7_OneFileDiffPerMarker ==
  pc = "returned"
    => LET L == Lines(input)
           at == Ascending(MarkerPositions(L))
       IN /\ ret # <<>>
          /\ at = <<>> => Len(ret) = 1 /\ ret[1].filename = NoChangesName
          /\ at # <<>>
               => /\ Len(ret) = Len(at)
                  /\ \A k \in DOMAIN ret :
                       LET section == SectionLines(L, at, k)
                           content == Lines(ret[k].diff_content)
                       IN /\ ret[k].filename = diff_filename(L[at[k]])
                          /\ {content[j] : j \in DOMAIN content}
                               \subseteq {section[n] : n \in DOMAIN section}

\* C7's case: a header and two markers parsed into two FileDiffs, in order.
C7_Witness ==
  /\ pc = "returned"
  /\ LET at == Ascending(MarkerPositions(Lines(input)))
     IN Len(at) = 2 /\ at[1] > 1
  /\ Len(ret) = 2
  /\ ret[1].filename = <<"x">>
  /\ ret[2].filename = <<"y">>

\* The third whitespace-separated token with one leading a/ removed.
ClaimedFilename(line) ==
  LET token == SplitWhitespace(line)[3]
  IN IF StartsWith(token, APrefix) THEN SubSeq(token, 3, Len(token)) ELSE token

\* C8: every FileDiff has a non-empty filename, and the filename of a marker
\* diff --git a/<path> b/<path> is <path>: its third token with one leading
\* a/ removed.
C8_FilenameIsPath ==
  pc = "returned"
    => LET L == Lines(input)
           at == Ascending(MarkerPositions(L))
       IN \A k \in DOMAIN ret :
            /\ ret[k].filename # <<>>
            /\ (at # <<>> /\ Len(SplitWhitespace(L[at[k]])) >= 3)
                 => ret[k].filename = ClaimedFilename(L[at[k]])

IsHunkHeaderLine(l) == StartsWith(l, <<"@", "@">>)

\* The lines C9 keeps of a section: the hunk headers, and under a hunk header
\* the lines that begin with +, - or a space.
RECURSIVE ClaimedContent(_, _)
ClaimedContent(lines, in_hunk) ==
  IF lines = <<>> THEN <<>>
  ELSE LET l == Head(lines)
           keep == \/ IsHunkHeaderLine(l)
                   \/ in_hunk /\ l # <<>> /\ l[1] \in {"+", "-", " "}
       IN (IF keep THEN <<l>> ELSE <<>>)
            \o ClaimedContent(Tail(lines), in_hunk \/ IsHunkHeaderLine(l))

\* C9: diff_content is exactly the hunk headers and the +, -, space content
\* lines of the file's section, in order: no other line kept, none dropped.
C9_ContentIsHunks ==
  pc = "returned"
    => LET L == Lines(input)
           at == Ascending(MarkerPositions(L))
       IN at # <<>>
            => \A k \in DOMAIN ret :
                 ret[k].diff_content = Unlines(ClaimedContent(SectionLines(L, at, k), FALSE))

(***************************************************************************)
(* The stash parser's claim.                                                *)
(***************************************************************************)

IsSuffix(t, l) == Len(t) <= Len(l) /\ SubSeq(l, Len(l) - Len(t) + 1, Len(l)) = t

\* C10: the k-th entry comes from the k-th line that holds a colon, and its
\* index is that line's 0-based position among the input's lines, whatever
\* number stands in the line's stash@{N}.
C10_IndexIsLinePosition ==
  pc = "returned"
    => LET L == Lines(input)
           at == Ascending({i \in DOMAIN L : \E j \in DOMAIN L[i] : L[i][j] = ":"})
       IN /\ Len(ret) = Len(at)
          /\ \A k \in DOMAIN ret :
               /\ ret[k].index = at[k] - 1
               /\ IsSuffix(ret[k].message, L[at[k]])

\* C10's case: a line without a colon, then stash@{7}: the entry has index 1.
C10_Witness ==
  /\ pc = "returned"
  /\ input = Unlines(<<<<"j", "u", "n", "k">>, <<"s", "t", "a", "s", "h", "@", "{">> \o <<"7">> \o <<"}", ":", " ">> \o OnPrefix \o <<"b", ":", " ", "m">>>>)
  /\ ret = <<StashEntry(1, <<"b">>, <<"m">>)>>

(***************************************************************************)
(* The log parser's claims.                                                 *)
(***************************************************************************)

LogInputLines == Lines(input)

\* The lines the claims call commit lines: not empty, with a hex digit.
CommitLines ==
  SelectSeq(LogInputLines, LAMBDA l : l # <<>> /\ \E i \in DOMAIN l : IsHexDigit(l[i]))

FirstHexDigit(l) == Min({i \in DOMAIN l : IsHexDigit(l[i])})

\* The first space at or after position i of l, or one past the end.
SpaceFrom(l, i) ==
  Min({j \in i..Len(l) : l[j] = " "} \cup {Len(l) + 1})

\* C4: the commits are the non-empty lines that hold a hex digit, in input
\* order; the graph of each is the line before its first hex digit, its hash
\* the text from that digit up to the first following space.
C4_OneCommitPerHexLine ==
  pc = "returned"
    => /\ Len(ret) = Len(CommitLines)
       /\ \A i \in DOMAIN CommitLines :
            LET l == CommitLines[i]
                h == FirstHexDigit(l)
            IN /\ ret[i].graph = SubSeq(l, 1, h - 1)
               /\ ret[i].hash = SubSeq(l, h, SpaceFrom(l, h) - 1)

\* The text after the first space that follows commit i's hash, as parsed.
AfterHash(i) ==
  SubSeq(CommitLines[i], Len(ret[i].graph) + Len(ret[i].hash) + 2, Len(CommitLines[i]))

IsPlainCommit(i) == ~StartsWith(Trim(AfterHash(i)), <<"(">>)

\* C6 as claimed: with no ( after the hash, no decorations, and the message
\* is the text after the first space following the hash, character for
\* character.
C6_MessageVerbatim ==
  pc = "returned"
    => \A i \in DOMAIN ret :
         IsPlainCommit(i)
           => ret[i].decorations = <<>> /\ ret[i].message = AfterHash(i)

\* C6 as amended: with no ( after the hash, no decorations, and the message
\* is the text after the first space following the hash with its leading
\* and trailing whitespace removed.
C6_MessageTrimmed ==
  pc = "returned"
    => \A i \in DOMAIN ret :
         /\ CommitLines[i] =
              ret[i].graph \o ret[i].hash
                \o SubSeq(CommitLines[i], Len(ret[i].graph) + Len(ret[i].hash) + 1,
                          Len(CommitLines[i]))
         /\ IsPlainCommit(i)
              => /\ ret[i].decorations = <<>>
                 /\ ret[i].message = Trim(AfterHash(i))
                 /\ \A j \in {1, Len(ret[i].message)} \cap DOMAIN ret[i].message :
                      ~IsWhitespace(ret[i].message[j])

\* C6's case: a message padded on both sides, parsed without decorations.
C6_Witness ==
  /\ pc = "returned"
  /\ input = <<"*", " ", "a", "b", "1", " ", " ", "m", " ", "n", " ">>
  /\ ret = <<Commit(<<"*", " ">>, <<"a", "b", "1">>, <<"m", " ", "n">>, <<>>)>>

(***************************************************************************)
(* The decoration list's claim.                                             *)
(***************************************************************************)

\* The ref named after a prefix, without the blanks around it.
RefAfter(part, prefix) == Trim(SubSeq(part, Len(prefix) + 1, Len(part)))

\* What C5 says a trimmed, non-empty part yields.
ClaimedDecorations(part) ==
  IF StartsWith(part, HeadArrow)
  THEN <<Decoration("Head", <<>>),
         Decoration(IF "/" \in {part[i] : i \in Len(HeadArrow) + 1..Len(part)}
                    THEN "RemoteBranch" ELSE "Branch", RefAfter(part, HeadArrow))>>
  ELSE IF part = HeadWord THEN <<Decoration("Head", <<>>)>>
  ELSE IF StartsWith(part, TagPrefix) THEN <<Decoration("Tag", RefAfter(part, TagPrefix))>>
  ELSE <<Decoration(IF "/" \in {part[i] : i \in DOMAIN part}
                    THEN "RemoteBranch" ELSE "Branch", part)>>

ClaimedParts ==
  SelectSeq([i \in DOMAIN Split(input, ",") |-> Trim(Split(input, ",")[i])],
            LAMBDA part : part # <<>>)

RECURSIVE ClaimedList(_)
ClaimedList(parts) ==
  IF parts = <<>> THEN <<>>
  ELSE ClaimedDecorations(Head(parts)) \o ClaimedList(Tail(parts))

\* C5: each trimmed, non-empty part of the list is classified as claimed
\* (HEAD -> X: Head, then RemoteBranch or Branch by the / in X; HEAD: Head;
\* tag: X: Tag; else RemoteBranch or Branch by the / in it), so a RemoteBranch
\* name holds a / and a Branch name holds none.
C5_DecorationClasses ==
  pc = "returned"
    => /\ ret = ClaimedList(ClaimedParts)
       /\ \A i \in DOMAIN ret :
            /\ ret[i].kind = "RemoteBranch" => \E j \in DOMAIN ret[i].name : ret[i].name[j] = "/"
            /\ ret[i].kind = "Branch" => \A j \in DOMAIN ret[i].name : ret[i].name[j] # "/"

\* C5's case: HEAD -> a remote ref, then a local branch, in one list.
C5_Witness ==
  /\ pc = "returned"
  /\ input = HeadArrow \o <<"o", "/", "m", ",", " ", "m">>
  /\ ret = <<Decoration("Head", <<>>), Decoration("RemoteBranch", <<"o", "/", "m">>),
             Decoration("Branch", <<"m">>)>>

(***************************************************************************)
(* The status parser's claims.  A claim about one line is stated of every  *)
(* text all of whose lines are of the claim's kind: the result is then the *)
(* lines' entries, one after the other.                                     *)
(***************************************************************************)

StatusInputLines == Lines(input)

TableCodes == {"M", "A", "D", "R"}

\* A porcelain line XY<space>path.
IsPorcelain(l) == Len(l) >= 3 /\ ByteLenOf(SubSeq(l, 1, 3)) = 3 /\ l[3] = " "

PathColumns(l) == SubSeq(l, 4, Len(l))

StatusCalled == pc # "start" /\ StatusInputLines # <<>>

IsUntrackedLine(l) == IsPorcelain(l) /\ l[1] = "?" /\ l[2] = "?"

\* C1: a line whose two status columns are both ? gives exactly one entry, for
\* its path, Untracked and not staged (never two entries).
C1_UntrackedOnce ==
  (StatusCalled /\ \A i \in DOMAIN StatusInputLines : IsUntrackedLine(StatusInputLines[i]))
    => /\ pc = "returned"
       /\ Len(ret) = Len(StatusInputLines)
       /\ \A i \in DOMAIN StatusInputLines :
            ret[i] = StatusFile(PathColumns(StatusInputLines[i]), "Untracked", FALSE)

IsOneSidedLine(l) ==
  /\ IsPorcelain(l)
  /\ \/ l[1] \in TableCodes /\ l[2] = " "
     \/ l[1] = " " /\ l[2] \in TableCodes

\* C2: a line with a code of M, A, D, R in exactly one status column and a space
\* in the other gives exactly one entry: its path is the text from column 3 on,
\* it is staged iff the code is in column 0, and code M gives Modified.
C2_OneSidedLineOneEntry ==
  (StatusCalled /\ \A i \in DOMAIN StatusInputLines : IsOneSidedLine(StatusInputLines[i]))
    => /\ pc = "returned"
       /\ Len(ret) = Len(StatusInputLines)
       /\ \A i \in DOMAIN StatusInputLines :
            LET l == StatusInputLines[i]
            IN /\ ret[i].path = PathColumns(l)
               /\ ret[i].staged = (l[1] \in TableCodes)
               /\ "M" \in {l[1], l[2]} => ret[i].status = "Modified"

\* C2's case: a staged line and an unstaged line parsed in one text.
C2_Witness ==
  /\ pc = "returned"
  /\ StatusInputLines = <<<<"M", " ", " ", "f">>, <<" ", "D", " ", "f">>>>
  /\ ret = <<StatusFile(<<"f">>, "Modified", TRUE), StatusFile(<<"f">>, "Deleted", FALSE)>>

HasUnstagedCode(l) == IsPorcelain(l) /\ l[2] \notin {" ", "?"}

UnstagedEntries == SelectSeq(ret, LAMBDA e : ~e.staged)

\* C3: the unstaged column is decoded with the staged column's table: M, A, D, R
\* in column 1 give Modified, Added, Deleted, Renamed with staged = false, and
\* only other codes fall back to Modified.
C3_UnstagedSameTable ==
  (StatusCalled /\ \A i \in DOMAIN StatusInputLines : HasUnstagedCode(StatusInputLines[i]))
    => /\ pc = "returned"
       /\ Len(UnstagedEntries) = Len(StatusInputLines)
       /\ \A i \in DOMAIN StatusInputLines :
            UnstagedEntries[i].status =
              CASE StatusInputLines[i][2] = "M" -> "Modified"
                [] StatusInputLines[i][2] = "A" -> "Added"
                [] StatusInputLines[i][2] = "D" -> "Deleted"
                [] StatusInputLines[i][2] = "R" -> "Renamed"
                [] OTHER -> "Modified"

(***************************************************************************)
(* Claims on the branch parser, under SpecBranches.                         *)
(***************************************************************************)

\* The number of branches the local listing of the call contributed.
LocalCount == Len(parse_branch_output(input.local, FALSE).val)

\* C11: every branch produced from the remote listing has is_remote = true
\* and is_current = false, whatever the text (a remote line beginning with *
\* included), so no branch returned by get_branches is both remote and current.
C11_RemoteNeverCurrent ==
  pc = "returned" =>
    LET n == LocalCount
    IN /\ \A i \in DOMAIN ret : i > n => ret[i].is_remote /\ ~ret[i].is_current
       /\ \A i \in DOMAIN ret : ~(ret[i].is_remote /\ ret[i].is_current)

\* What the claim says a listing line yields: after the 2-character prefix,
\* the first two whitespace-delimited tokens as name and commit_hash.
ClaimedBranchTokens(line) ==
  LET trimmed == Trim(line)
      tokens == SplitWhitespace(BranchLineContent(line).val)
  IN IF trimmed = <<>> \/ ContainsStr(trimmed, HeadArrowMark) THEN <<>>
     ELSE IF Len(tokens) >= 2 THEN <<[name |-> tokens[1], commit_hash |-> tokens[2]]>>
     ELSE <<>>

RECURSIVE ClaimedBranches(_)
ClaimedBranches(lines) ==
  IF lines = <<>> THEN <<>>
  ELSE ClaimedBranchTokens(Head(lines)) \o ClaimedBranches(Tail(lines))

\* C12: for every listing line, after the 2-character prefix, name is the
\* first whitespace-delimited token and commit_hash the second, also when a run
\* of several spaces separates them; commit_hash is never the empty string.
C12_NameAndHashAreTokens ==
  pc = "returned" =>
    /\ [i \in DOMAIN ret |-> [name |-> ret[i].name, commit_hash |-> ret[i].commit_hash]]
         = ClaimedBranches(Lines(input.local)) \o ClaimedBranches(Lines(input.remote))
    /\ \A i \in DOMAIN ret : ret[i].commit_hash # <<>>

\* C13: no parser aborts, whatever the text: a line shorter than the offset
\* the parser slices at is skipped or mapped to a sentinel (here the branch
\* parser, called by get_branches on the two listings).
C13_ParserNeverAborts == pc # "panicked"

(***************************************************************************)
(* Claims on the selection cursors, under Spec.                             *)
(***************************************************************************)

\* The index the circular rule gives from index i of a list of n >= 1.
ClaimedNext(i, n) == IF i < n - 1 THEN i + 1 ELSE 0

ClaimedPrevious(i, n) == IF i > 0 THEN i - 1 ELSE n - 1

\* A step of a cursor over a list by the circular rule: on an empty list the
\* selection is unset and nothing changes; from an index, the claimed index.
CircularStep(list, selected, selected_after, Claimed(_, _)) ==
  IF list = <<>> THEN selected = None /\ app' = app
  ELSE selected # None => selected_after = Some(Claimed(selected[1], Len(list)))

\* The files of the loaded diff, none when no diff is loaded.
DiffFiles(a) == IF a.current_diff = None THEN <<>> ELSE a.current_diff[1].files

\* C14: on the commit, stash, branch and diff-file lists, next goes from
\* i < N-1 to i+1 and from N-1 to 0, previous from i > 0 to i-1 and from 0 to
\* N-1; on an empty list, and for diff files with no diff loaded, next and
\* previous leave the selection unset and change nothing.
C14_CircularSelection ==
  [][Mode(app) = "Normal" =>
       /\ (app.current_panel = "Log" /\ ~app.show_diff /\ input' \in {"Down", "j"})
            => CircularStep(app.commits, app.list_state, app'.list_state, ClaimedNext)
       /\ (app.current_panel = "Log" /\ ~app.show_diff /\ input' \in {"Up", "k"})
            => CircularStep(app.commits, app.list_state, app'.list_state, ClaimedPrevious)
       /\ (app.current_panel = "Log" /\ app.show_diff /\ input' \in {"Right", "l"})
            => CircularStep(DiffFiles(app), app.file_list_state, app'.file_list_state,
                            ClaimedNext)
       /\ (app.current_panel = "Log" /\ app.show_diff /\ input' \in {"Left", "h"})
            => CircularStep(DiffFiles(app), app.file_list_state, app'.file_list_state,
                            ClaimedPrevious)
       /\ (app.current_panel = "Stash" /\ input' \in {"Down", "j"})
            => CircularStep(app.stashes, app.stash_list_state, app'.stash_list_state,
                            ClaimedNext)
       /\ (app.current_panel = "Stash" /\ input' \in {"Up", "k"})
            => CircularStep(app.stashes, app.stash_list_state, app'.stash_list_state,
                            ClaimedPrevious)
       /\ (app.current_panel = "Branches" /\ input' \in {"Down", "j"})
            => CircularStep(app.branches, app.branch_list_state, app'.branch_list_state,
                            ClaimedNext)
       /\ (app.current_panel = "Branches" /\ input' \in {"Up", "k"})
            => CircularStep(app.branches, app.branch_list_state, app'.branch_list_state,
                            ClaimedPrevious)]_vars

\* next has wrapped from the last of two diff files to the first: the files
\* of a diff just opened start at 0, and Right moves at every press.
C14_Witness ==
  /\ Mode(app) = "Normal" /\ app.current_panel = "Log" /\ app.show_diff
  /\ input = "Right" /\ keys = 4
  /\ Len(DiffFiles(app)) = 2 /\ app.file_list_state = Some(0)

\* C15: in the Status panel the cursor is never on a header row: a selected
\* row is a row that displays a file.
C15_CursorOnFileRow ==
  app.status_list_state # None =>
    LET rows == StatusRows(app.status_files)
        i == app.status_list_state[1]
    IN i < Len(rows) /\ "file" \in DOMAIN rows[i + 1]

\* C16: with an empty status collection, next_status_file and
\* previous_status_file (Down, j, Up, k in the Status panel with no diff
\* shown) are no-ops: the Status selection stays unset.
C16_EmptyStatusStaysUnset ==
  (/\ Mode(app) = "Normal" /\ app.current_panel = "Status" /\ ~app.status_show_diff
   /\ input \in {"Down", "j", "Up", "k"}
   /\ app.status_files = <<>>)
    => app.status_list_state = None

\* C17: for every row of the Status panel that shows a file, the row-to-file
\* mapping of stage/unstage, discard and show-diff yields the StatusFile the
\* panel displays on that row, whatever the order of the collection.
C17_RowMapsToDisplayedFile ==
  LET rows == StatusRows(app.status_files)
  IN \A i \in DOMAIN rows :
       "file" \in DOMAIN rows[i] => StatusFileAt(app, i - 1) = Some(rows[i].file)

(***************************************************************************)
(* Claims on panels and modes, under Spec.                                  *)
(***************************************************************************)

\* The panel of the keys 1 to 4.
PanelOfKey(key_code) ==
  CASE key_code = "1" -> "Status"
    [] key_code = "2" -> "Log"
    [] key_code = "3" -> "Stash"
    [] key_code = "4" -> "Branches"

\* C18: a key 1-4 in Normal mode changes current_panel and nothing else:
\* collections, cursors, diff and scroll state, filter, buffers, mode flags
\* and the status message stay, and no Gateway call is made.
C18_SwitchChangesOnlyPanel ==
  [][(Mode(app) = "Normal" /\ input' \in {"1", "2", "3", "4"}) =>
       /\ app' = [app EXCEPT !.current_panel = PanelOfKey(input')]
       /\ ret' = <<>>]_vars

\* The panel was switched with a status message on display and a cursor
\* moved off the first row.
C18_Witness ==
  /\ input = "3" /\ app.current_panel = "Stash" /\ Mode(app) = "Normal"
  /\ app.status_message # None
  /\ app.status_list_state = Some(1)

\* The transient modes that are active.
ActiveModes(a) ==
  {m \in {"search_mode", "branch_input_mode", "commit_message_mode",
          "stash_input_mode", "new_branch_input_mode", "tree_view_mode"} : a[m]}

\* C19: in every state reached by keys, at most one of search, branch-name,
\* commit-message, stash-message, new-branch input and tree view is active,
\* and help is not visible while one of the five text modes is active.
C19_OneModeAtATime ==
  /\ Cardinality(ActiveModes(app)) <= 1
  /\ app.help_visible => ActiveModes(app) \subseteq {"tree_view_mode"}

\* Help opened over tree view, and a text mode open with keys typed in it.
C19_Witness ==
  \/ app.help_visible /\ app.tree_view_mode
  \/ app.commit_message_mode /\ app.amend_mode /\ app.commit_message_input = <<"m", "?">>

\* C20: while help is visible, a key other than ? and Esc leaves the whole
\* state as it is, ? or Esc only sets help_visible to false; no other handler
\* runs and no Gateway call is made.
C20_HelpInterceptsKeys ==
  [][app.help_visible =>
       /\ app' = IF input' \in {"?", "Esc"} THEN [app EXCEPT !.help_visible = FALSE]
                 ELSE app
       /\ ret' = <<>>
       /\ pc' = "running"]_vars

\* A key that quits in Normal mode was pressed under help, opened over an
\* open commit diff.
C20_Witness ==
  app.help_visible /\ input = "q" /\ app.show_diff /\ ~app.should_quit

(***************************************************************************)
(* Claims on the input-text modes, under Spec.                              *)
(***************************************************************************)

\* The input-text modes and the flag of each.
TextModes == {"Search", "BranchInput", "CommitMessage", "StashInput", "NewBranch"}

ModeFlag(mode) ==
  CASE mode = "Search" -> "search_mode"
    [] mode = "BranchInput" -> "branch_input_mode"
    [] mode = "CommitMessage" -> "commit_message_mode"
    [] mode = "StashInput" -> "stash_input_mode"
    [] mode = "NewBranch" -> "new_branch_input_mode"

\* C21: Enter pressed in an input-text mode leaves that mode inactive once
\* the key is handled, whether the action succeeded, failed or could not be
\* attempted.
C21_EnterExitsMode ==
  [][(Mode(app) \in TextModes /\ input' = "Enter") => ~app'[ModeFlag(Mode(app))]]_vars

\* The keys that enter an input-text mode from a panel, and the buffer of
\* the mode each enters.
EntryKeys(panel) ==
  CASE panel = "Status" -> {"c", "A", "s"}
    [] panel = "Log" -> {"/", "b"}
    [] panel = "Stash" -> {}
    [] panel = "Branches" -> {"n"}

BufferOfKey(key_code) ==
  CASE key_code = "/" -> "search_query"
    [] key_code = "b" -> "branch_name_input"
    [] key_code \in {"c", "A"} -> "commit_message_input"
    [] key_code = "s" -> "stash_message_input"
    [] key_code = "n" -> "new_branch_name_input"

\* Esc given to the handler of the input-text mode a is in.
EscInTextMode(a) ==
  CASE Mode(a) = "Search" -> handle_search_mode(a, "Esc")
    [] Mode(a) = "BranchInput" -> handle_branch_input_mode(a, "Esc")
    [] Mode(a) = "CommitMessage" -> handle_commit_message_mode(a, "Esc")
    [] Mode(a) = "StashInput" -> handle_stash_input_mode(a, "Esc")
    [] Mode(a) = "NewBranch" -> handle_new_branch_mode(a, "Esc")

\* The round trips from a Normal-mode state a: a key that enters a mode,
\* then Esc at once; the state reached and the Gateway calls of the two keys.
RoundTrips(a) ==
  UNION {UNION {{[key |-> key_code, after |-> r2.app, calls |-> r1.calls \o r2.calls] :
                   r2 \in EscInTextMode(r1.app)} :
                r1 \in {r \in handle_normal_mode(a, key_code) :
                          r.result = "Ok" /\ Mode(r.app) \in TextModes}} :
         key_code \in EntryKeys(a.current_panel)}

\* C22 as stated: entering an input mode and pressing Esc at once gives
\* back every field of the state, the mode's buffer and the amend flag
\* included, with no Gateway call that mutates.
C22_RoundTripRestoresAll ==
  Mode(app) = "Normal" =>
    \A t \in RoundTrips(app) :
      /\ t.after = app
      /\ \A i \in DOMAIN t.calls : t.calls[i].name = "get_last_commit_message"

\* C22 amended: the round trip gives back every field but the mode's buffer,
\* which is left as the entry set it (empty, or the last commit message for
\* amend); the only Gateway call is the read of that message.
C22_RoundTripRestoresAllButBuffer ==
  Mode(app) = "Normal" =>
    \A t \in RoundTrips(app) :
      LET buffer == BufferOfKey(t.key)
      IN /\ [t.after EXCEPT ![buffer] = app[buffer]] = app
         /\ IF t.key = "A"
            THEN /\ t.after[buffer] \in LastCommitMessages
                 /\ t.calls = <<Call("get_last_commit_message", <<>>, TRUE)>>
            ELSE t.after[buffer] = <<>> /\ t.calls = <<>>

\* Amend was entered and left with Esc at once: the buffer holds the last
\* commit message, both flags are down.
C22_Witness ==
  /\ input = "Esc" /\ keys = 2 /\ Mode(app) = "Normal" /\ app.current_panel = "Status"
  /\ app.commit_message_input \in LastCommitMessages
  /\ ~app.amend_mode

(***************************************************************************)
(* Claims on the diff views, under Spec.                                    *)
(***************************************************************************)

\* The step made exactly one Gateway call, a successful fetch by name.
OneFetch(calls, name) ==
  Len(calls) = 1 /\ calls[1].name = name /\ calls[1].ok

\* C23: a step that turns a diff view on (the commit diff, tree view, the
\* Status diff) makes exactly one Gateway diff fetch and leaves the fetched
\* diff stored, the scroll at 0 and, for commit diffs, the first file
\* selected: no diff view is open without a fetch for the selected row.
C23_DiffViewOpensWithFetch ==
  [][/\ ((~app.show_diff /\ app'.show_diff) \/ (~app.tree_view_mode /\ app'.tree_view_mode))
          => /\ OneFetch(ret', "get_commit_diff")
             /\ ret'[1].args = <<SelectedHash(app)>>
             /\ app'.current_diff = Some(CommitDiff(parse_commit_diff(ShowText(SelectedHash(app)))))
             /\ app'.diff_scroll = 0
             /\ app'.file_list_state =
                  (IF app'.current_diff[1].files = <<>> THEN None ELSE Some(0))
     /\ (~app.status_show_diff /\ app'.status_show_diff)
          => /\ OneFetch(ret', "get_file_diff")
             /\ app'.status_diff_content # None
             /\ app'.status_diff_scroll = 0]_vars

\* C24: in tree view, Esc in the file-diff sub-view goes back to the file
\* list with tree view open, the diff and the file selection kept and the
\* scroll at 0; Esc in the file-list sub-view closes tree view, drops the
\* diff and clears the file selection.
C24_EscLeavesOneLevel ==
  [][(Mode(app) = "TreeView" /\ input' = "Esc") =>
       IF app.tree_file_selected
       THEN /\ app'.tree_view_mode /\ ~app'.tree_file_selected
            /\ app'.current_diff = app.current_diff
            /\ app'.file_list_state = app.file_list_state
            /\ app'.diff_scroll = 0
       ELSE /\ ~app'.tree_view_mode
            /\ app'.current_diff = None
            /\ app'.file_list_state = None]_vars

\* Esc after t and Enter on the Log panel: back on the file list of a diff
\* of two files, tree view open.
C24_Witness ==
  /\ input = "Esc" /\ keys = 4 /\ Mode(app) = "TreeView" /\ ~app.tree_file_selected
  /\ Len(DiffFiles(app)) = 2 /\ app.file_list_state = Some(0)

(***************************************************************************)
(* Claims on the search, under Spec.                                        *)
(***************************************************************************)

\* The filter a confirmed query stands for.
ClaimedFilter(query) ==
  IF query = <<>> THEN None
  ELSE IF query[1] = "@"
  THEN Some([kind |-> "Author", text |-> SubSeq(query, 2, Len(query))])
  ELSE Some([kind |-> "Message", text |-> query])

\* C25: confirming a search stores the filter of the query (none for an
\* empty query, Author of the text after @, Message of the whole query
\* otherwise), fetches the commits once with exactly that filter, and on
\* success selects index 0 of a non-empty list, nothing on an empty one, and
\* leaves search mode.
C25_ConfirmAppliesFilter ==
  [][(Mode(app) = "Search" /\ input' = "Enter") =>
       LET filter == ClaimedFilter(app.search_query)
       IN /\ app'.active_filter = filter
          /\ Len(ret') = 1 /\ ret'[1].name = "get_commits" /\ ret'[1].args = filter
          /\ ret'[1].ok =>
               /\ app'.list_state = (IF app'.commits = <<>> THEN None ELSE Some(0))
               /\ ~app'.search_mode]_vars

\* A message search confirmed and answered with no commit: nothing selected.
C25_Witness ==
  /\ input = "Enter" /\ ~app.search_mode /\ app.current_panel = "Log"
  /\ app.active_filter = Some([kind |-> "Message", text |-> <<"x">>])
  /\ ret # <<>> /\ ret[1].name = "get_commits" /\ ret[1].ok
  /\ app.commits = <<>> /\ app.list_state = None

\* C26: an active filter carries a non-empty text: neither Message("") nor
\* Author("") is stored as the active filter or passed to the Gateway.
C26_FilterTextNonEmpty ==
  /\ app.active_filter # None => app.active_filter[1].text # <<>>
  /\ \A i \in DOMAIN ret :
       (ret[i].name = "get_commits" /\ ret[i].args # None) => ret[i].args[1].text # <<>>

(***************************************************************************)
(* Claims on failing Gateway calls, under Spec.                             *)
(***************************************************************************)

\* The Gateway functions that only read the repository.
FetchNames ==
  {"get_commits", "get_commit_diff", "get_file_diff", "get_status", "get_stashes",
   "get_branches", "get_last_commit_message"}

\* Some call of the mutating Gateway functions among calls has failed.
MutationFailed(calls) ==
  \E i \in DOMAIN calls : calls[i].name \notin FetchNames /\ ~calls[i].ok

\* The four collections, the four cursors and the file cursor, the diff and
\* tree-view state and the active filter.
Content(a) ==
  <<a.commits, a.status_files, a.stashes, a.branches,
    a.list_state, a.status_list_state, a.stash_list_state, a.branch_list_state,
    a.file_list_state,
    a.show_diff, a.current_diff, a.diff_scroll, a.tree_view_mode, a.tree_file_selected,
    a.status_show_diff, a.status_diff_content, a.status_diff_scroll,
    a.active_filter>>

\* C27: a key whose mutating Gateway call fails leaves a status message of
\* severity Error and leaves the four collections, every cursor, the diff and
\* tree-view state and the active filter as they were.
C27_FailedMutationKeepsContent ==
  [][MutationFailed(ret') =>
       /\ app'.status_message # None /\ app'.status_message_type = "Error"
       /\ Content(app') = Content(app)]_vars

\* stage_all has failed on a repository with files and with a selection.
C27_Witness ==
  /\ input = "a" /\ ret = <<Call("stage_all", <<>>, FALSE)>>
  /\ app.status_message_type = "Error" /\ app.status_message # None
  /\ app.status_files # <<>> /\ app.status_list_state # None

\* The Gateway functions that classify a failure by its error text.
CommandNames == {"cherry_pick", "revert_commit", "merge_branch"}

\* The resolve-and-continue guidance of each command.
Guidance(name) ==
  CASE name = "cherry_pick" ->
         "Cherry-pick has conflicts. Resolve them and run 'git cherry-pick --continue'"
    [] name = "revert_commit" ->
         "Revert has conflicts. Resolve them and run 'git revert --continue'"
    [] name = "merge_branch" ->
         "Merge has conflicts. Resolve them and run 'git merge --continue'"

\* Every Gateway call of the step after the first has succeeded.
RefreshesOk(calls) == \A i \in DOMAIN calls : i > 1 => calls[i].ok

\* C28: when the command behind cherry-pick, revert or merge fails with a
\* conflict signature in its error text, the status message has severity
\* Info and is the resolve-and-continue guidance of that command.
C28_ConflictIsInfo ==
  [][\A i \in DOMAIN ret' :
       (/\ ret'[i].name \in CommandNames
        /\ ~ret'[i].run.success /\ HasConflictSignature(ret'[i].run.error)
        /\ RefreshesOk(ret'))
         => /\ app'.status_message_type = "Info"
            /\ app'.status_message = Some(Guidance(ret'[i].name))]_vars

\* The letters of the word conflict in lower case.
Lower(c) ==
  CASE c = "C" -> "c" [] c = "O" -> "o" [] c = "N" -> "n" [] c = "F" -> "f"
    [] c = "L" -> "l" [] c = "I" -> "i" [] c = "T" -> "t" [] OTHER -> c

\* The error text contains the word conflict in any letter case.
MentionsConflict(error) ==
  ContainsStr([i \in DOMAIN error |-> Lower(error[i])], ConflictLower)

\* C29: a failing cherry-pick, revert or merge whose error text contains the
\* word conflict in any letter case is classified as a conflict: its Gateway
\* call returns the guidance and the key does not end in an Error message for
\* it.
C29_ConflictAnyCase ==
  [][\A i \in DOMAIN ret' :
       (/\ ret'[i].name \in CommandNames
        /\ ~ret'[i].run.success /\ MentionsConflict(ret'[i].run.error))
         => /\ ret'[i].ok
            /\ RefreshesOk(ret') => app'.status_message_type # "Error"]_vars

\* Some fetch of commits or of a commit diff among calls has failed.
FetchFailed(calls) ==
  \E i \in DOMAIN calls :
    calls[i].name \in {"get_commits", "get_commit_diff"} /\ ~calls[i].ok

\* C30: a key whose fetch of the commits or of a commit diff fails does not
\* end the session: it leaves an Error status message, the active filter
\* still the one the kept commit list was fetched with, and search mode off.
C30_FailedFetchIsReported ==
  [][FetchFailed(ret') =>
       /\ pc' = "running"
       /\ app'.status_message # None /\ app'.status_message_type = "Error"
       /\ app'.commits = app.commits => app'.active_filter = app.active_filter
       /\ ~app'.search_mode]_vars

(***************************************************************************)
(* Claims on quitting and on Esc in Normal mode, under Spec.                *)
(***************************************************************************)

\* C31: the quit flag is only raised by a key handled in Normal mode with the
\* commit diff view closed; no key pressed in tree view raises it, and with
\* the commit diff view open the quit key closes the diff and does not quit.
C31_QuitOnlyFromNormal ==
  [][/\ (~app.should_quit /\ app'.should_quit) =>
          (Mode(app) = "Normal" /\ ~app.show_diff)
     /\ (Mode(app) = "Normal" /\ app.show_diff /\ input' = "q") =>
          (~app'.should_quit /\ ~app'.show_diff)]_vars

(***************************************************************************)
(* Claims on the refreshes after a mutation, under Spec.                    *)
(***************************************************************************)

\* The reads of the repository a successful mutation is to be followed by:
\* one for each collection whose data the mutation changes.
ReadsAfter(name) ==
  (IF name \in {"commit", "commit_amend", "cherry_pick", "revert_commit",
                "merge_branch", "pull"}
   THEN {"get_commits"} ELSE {})
    \cup (IF name \in {"checkout_commit", "create_branch", "switch_branch",
                       "delete_branch", "create_new_branch"}
          THEN {"get_branches"} ELSE {})
    \cup (IF name \in {"create_stash", "pop_stash", "drop_stash"}
          THEN {"get_stashes"} ELSE {})
    \cup (IF name \in {"stage_file", "unstage_file", "stage_all", "unstage_all",
                       "commit", "commit_amend", "discard_file", "create_stash",
                       "apply_stash", "pop_stash"}
          THEN {"get_status"} ELSE {})

\* The call has changed the repository: it returned Ok, and for the commands
\* that classify their failure, the command itself succeeded.
Changed(call) ==
  /\ call.name \notin FetchNames /\ call.ok
  /\ call.name \in CommandNames => call.run.success

\* C32: a successful mutating action is followed, within the same key, by a
\* Gateway read of every collection whose repository data it changes (the
\* commits after commit, amend, cherry-pick, revert, merge, pull; the
\* branches after checkout, create, switch, delete; the stashes after stash
\* create, pop, drop; the status after stage, unstage, commit, discard and
\* the stash operations).
C32_MutationRefreshesCollections ==
  [][\A i \in DOMAIN ret' :
       Changed(ret'[i]) =>
         \A read \in ReadsAfter(ret'[i].name) :
           \E j \in DOMAIN ret' : j > i /\ ret'[j].name = read]_vars

(***************************************************************************)
(* Claims on the stash stack, under Spec.                                   *)
(***************************************************************************)

\* The Gateway functions that take the index of a stash.
StashRequests == {"apply_stash", "pop_stash", "drop_stash"}

\* The Gateway functions that renumber the stash stack.
StackMutations == {"create_stash", "pop_stash", "drop_stash"}

\* The calls of a key have changed the stash stack and not read it again
\* with success: the stash list held is the one of before the change.
StaleStashes(calls) ==
  \E i \in DOMAIN calls :
    /\ calls[i].name \in StackMutations /\ calls[i].ok
    /\ ~\E j \in DOMAIN calls : j > i /\ calls[j].name = "get_stashes" /\ calls[j].ok

\* C33: no apply, pop or drop request carries an index read from a stash list
\* fetched before the latest successful change of the stack: when the last
\* key changed the stack and its re-fetch of the stash list failed, the next
\* key sends no such request.
C33_NoStaleStashIndex ==
  [][StaleStashes(ret) =>
       \A i \in DOMAIN ret' : ret'[i].name \notin StashRequests]_vars

(***************************************************************************)
(* Esc in Normal mode late in a session.  Clearing a filter takes place at   *)
(* the fifth key at the earliest (2, /, x, Enter, Esc), so SpecEsc takes up  *)
(* the session on the Log panel after the keys                               *)
(*   2, optionally Enter, optionally / x Enter or / @ x Enter, optionally P  *)
(* each answered with success by the Gateway, and goes on with Esc keys.     *)
(***************************************************************************)

\* The states where the outcomes of a handler that ended Ok are.
OkStates(outcomes) == {o.app : o \in {r \in outcomes : r.result = "Ok"}}

\* After the key 2.
OnLogPanel ==
  {switch_to_panel(
     NewApp(parse_log_output(r.log).val, parse_status_output(r.status).val,
            parse_stash_output(r.stash), get_branches(r.local, TRUE, r.remote).val),
     "Log") : r \in Repositories}

\* Then with or without Enter: the commit diff open or closed.
DiffOpenOrNot == OnLogPanel \cup UNION {OkStates(toggle_diff(a)) : a \in OnLogPanel}

\* After / and the characters of a query: enter_search_mode, add_search_char.
TypedQuery ==
  {[a EXCEPT !.search_mode = TRUE, !.search_query = query] :
     a \in DiffOpenOrNot, query \in {<<"x">>, <<"@", "x">>}}

\* Then with or without Enter on the query: a filter or none.
FilteredOrNot ==
  DiffOpenOrNot \cup UNION {OkStates(execute_search(a)) : a \in TypedQuery}

\* Then with or without P: a status message or none.
EscStates == FilteredOrNot \cup UNION {OkStates(push_to_remote(a)) : a \in FilteredOrNot}

InitEsc ==
  /\ app \in EscStates
  /\ input = ""
  /\ ret = <<>>
  /\ pc = "running"
  /\ keys = 0

\* handle_key_event on Esc where no overlay and no mode is active.
EscKey ==
  /\ Running /\ Mode(app) = "Normal"
  /\ \E r \in handle_normal_mode(app, "Esc") : Turn("Esc", r)

NextEsc == EscKey

SpecEsc == InitEsc /\ [][NextEsc]_vars

\* C34: in Normal mode Esc acts on one thing, by priority: with a status
\* message it only clears the message; otherwise with an active filter it
\* clears the filter and fetches the unfiltered commits once, leaving the diff
\* view and the quit flag alone; with neither it closes the open commit diff
\* or else raises the quit flag.
C34_EscPriority ==
  [][(Mode(app) = "Normal" /\ input' = "Esc") =>
       IF app.status_message # None
       THEN app' = [app EXCEPT !.status_message = None] /\ ret' = <<>>
       ELSE IF app.active_filter # None
       THEN /\ app'.active_filter = None
            /\ Len(ret') = 1 /\ ret'[1].name = "get_commits" /\ ret'[1].args = None
            /\ app'.show_diff = app.show_diff /\ app'.current_diff = app.current_diff
            /\ app'.should_quit = app.should_quit /\ app'.status_message = None
            /\ ret'[1].ok =>
                 app'.list_state = (IF app'.commits = <<>> THEN None ELSE Some(0))
       ELSE /\ ret' = <<>>
            /\ app' = (IF app.show_diff
                       THEN [app EXCEPT !.show_diff = FALSE, !.current_diff = None,
                                        !.diff_scroll = 0, !.file_list_state = None]
                       ELSE [app EXCEPT !.should_quit = TRUE])]_vars

\* The second Esc of a session with a message, a filter and the diff open:
\* the filter is cleared, the diff still open.
C34_Witness ==
  /\ input = "Esc" /\ keys = 2
  /\ ret # <<>> /\ ret[1] = Call("get_commits", None, TRUE)
  /\ app.active_filter = None /\ app.status_message = None
  /\ app.show_diff /\ ~app.should_quit

(***************************************************************************)
(* The scroll counters at both ends of u16.  SpecScroll takes up the        *)
(* session with a diff view open (Enter on the Status or on the Log panel)  *)
(* and its counter where some number of j keys has brought it, and goes on  *)
(* with the four scroll keys.                                               *)
(***************************************************************************)

\* The distance of a page scroll.
Page == 10

\* Counter values near both ends of u16.
ScrollStarts ==
  {0, 1, Page - 1, Page, Page + 1,
   U16Max - Page - 1, U16Max - Page, U16Max - Page + 1, U16Max - 1, U16Max}

ScrollKeys == {"j", "k", "PageUp", "PageDown"}

\* Enter on the Status panel, the status diff shown.
StatusDiffShown ==
  {a \in UNION {OkStates(toggle_status_diff(
                  NewApp(parse_log_output(r.log).val, parse_status_output(r.status).val,
                         parse_stash_output(r.stash),
                         get_branches(r.local, TRUE, r.remote).val))) :
                r \in Repositories} : a.status_show_diff}

\* 2 and Enter, the commit diff shown.
CommitDiffShown == {a \in DiffOpenOrNot : a.show_diff}

InitScroll ==
  /\ \E s \in ScrollStarts :
       \/ \E a \in StatusDiffShown : app = [a EXCEPT !.status_diff_scroll = s]
       \/ \E a \in CommitDiffShown : app = [a EXCEPT !.diff_scroll = s]
  /\ input = ""
  /\ ret = <<>>
  /\ pc = "running"
  /\ keys = 0

\* handle_key_event on a scroll key where no overlay and no mode is active.
ScrollKey ==
  /\ Running /\ Mode(app) = "Normal"
  /\ \E key_code \in ScrollKeys :
       \E r \in handle_normal_mode(app, key_code) : Turn(key_code, r)

NextScroll == ScrollKey

SpecScroll == InitScroll /\ [][NextScroll]_vars

\* The counter of the diff view of the panel.
ScrollOf(a) == IF a.current_panel = "Log" THEN a.diff_scroll ELSE a.status_diff_scroll

\* C35: on both scroll counters scroll-up at 0 leaves 0 and otherwise
\* subtracts 1, page-up from s gives max(s - 10, 0), scroll-down adds exactly
\* 1 and page-down exactly 10 for every value a u16 holds, with no wrap-around
\* and no abort at the top of the range.
C35_ScrollArithmetic ==
  [][(Mode(app) = "Normal" /\ (app.show_diff \/ app.status_show_diff)
        /\ input' \in ScrollKeys) =>
       LET s == ScrollOf(app)
       IN /\ pc' = "running"
          /\ ScrollOf(app') =
               CASE input' = "k" -> IF s = 0 THEN 0 ELSE s - 1
                 [] input' = "PageUp" -> IF s - 10 > 0 THEN s - 10 ELSE 0
                 [] input' = "j" -> s + 1
                 [] input' = "PageDown" -> s + 10]_vars

(***************************************************************************)
(* Implicit invariants of the session, under Spec.                          *)
(***************************************************************************)

\* C36: whenever the commit diff view is open or tree view is active, a
\* fetched commit diff is present.
C36_OpenViewHasDiff ==
  (app.show_diff \/ app.tree_view_mode) => app.current_diff # None

\* The selection is unset or an index of a collection of this length.
ValidSelection(selected, len) == selected = None \/ selected[1] < len

\* C37: each of the commit, stash, branch and diff-file selections is unset
\* or an index into its current collection.
C37_SelectionsInBounds ==
  /\ ValidSelection(app.list_state, Len(app.commits))
  /\ ValidSelection(app.stash_list_state, Len(app.stashes))
  /\ ValidSelection(app.branch_list_state, Len(app.branches))
  /\ ValidSelection(app.file_list_state,
                    IF app.current_diff = None THEN 0
                    ELSE Len(app.current_diff[1].files))

\* The second commit selected, then a search answered with one commit: the
\* selection is back on index 0.
C37_Witness ==
  /\ input = "Enter" /\ keys = 4
  /\ ret = <<Call("get_commits", None, TRUE)>>
  /\ Len(app.commits) = 1 /\ app.list_state = Some(0)

\* C38: whenever a diff view is open the stored diff is the one of the
\* selected entry: with the commit diff or tree view on, current_diff is the
\* diff of commits[selected]; with the status diff on, status_diff_content is
\* the diff of the selected status file.
C38_DiffOfSelected ==
  /\ (app.show_diff \/ app.tree_view_mode) =>
       /\ app.list_state # None /\ app.list_state[1] < Len(app.commits)
       /\ app.current_diff = Some(CommitDiff(parse_commit_diff(ShowText(SelectedHash(app)))))
  /\ app.status_show_diff =>
       LET file == SelectedStatusFile(app)
       IN /\ file # None
          /\ app.status_diff_content = Some(FileDiffText(file[1].path, file[1].staged))

(***************************************************************************)
(* Implicit guards of the requests, under Spec.                             *)
(***************************************************************************)

\* The four collections and their cursors.
Collections(a) ==
  <<a.commits, a.status_files, a.stashes, a.branches,
    a.list_state, a.status_list_state, a.stash_list_state, a.branch_list_state>>

\* The key asks for something the guards refuse: delete of a current or
\* remote branch, merge or switch of the current branch, discard of a staged
\* entry.
Refused(a, key_code) ==
  /\ Mode(a) = "Normal"
  /\ \/ /\ a.current_panel = "Branches" /\ SelectedBranch(a) # None
        /\ \/ key_code \in {"d", "m", "Enter"} /\ SelectedBranch(a)[1].is_current
           \/ key_code = "d" /\ SelectedBranch(a)[1].is_remote
     \/ /\ a.current_panel = "Status" /\ key_code = "x"
        /\ SelectedStatusFile(a) # None /\ SelectedStatusFile(a)[1].staged

\* C39: no delete request is sent for a branch marked current or remote, no
\* merge or switch request for the branch marked current, no discard request
\* for a staged entry; a refused request sets a status message and leaves the
\* collections and the cursors unchanged.
C39_GuardedRequests ==
  [][/\ \A i \in DOMAIN ret' :
          /\ ret'[i].name \in {"delete_branch", "merge_branch", "switch_branch"} =>
               /\ SelectedBranch(app) # None
               /\ ret'[i].args[1] = SelectedBranch(app)[1].name
               /\ ~SelectedBranch(app)[1].is_current
               /\ ret'[i].name = "delete_branch" => ~SelectedBranch(app)[1].is_remote
          /\ ret'[i].name = "discard_file" =>
               /\ SelectedStatusFile(app) # None
               /\ ret'[i].args[1] = SelectedStatusFile(app)[1].path
               /\ ~SelectedStatusFile(app)[1].staged
     /\ Refused(app, input') =>
          /\ ret' = <<>> /\ app'.status_message # None
          /\ Collections(app') = Collections(app)]_vars

\* The delete of a remote branch has been refused.
C39_Witness ==
  /\ input = "d" /\ ret = <<>> /\ app.current_panel = "Branches"
  /\ app.status_message = Some("Cannot delete remote branches from this view")
  /\ SelectedBranch(app) # None /\ SelectedBranch(app)[1].is_remote

\* The Gateway functions that take a commit message or a branch name first.
NamedRequests == {"commit", "commit_amend", "create_branch", "create_new_branch"}

\* Enter on an empty buffer in commit-message, branch-name or new-branch mode.
EmptyConfirm(a, key_code) ==
  /\ key_code = "Enter"
  /\ \/ Mode(a) = "CommitMessage" /\ a.commit_message_input = <<>>
     \/ Mode(a) = "BranchInput" /\ a.branch_name_input = <<>>
     \/ Mode(a) = "NewBranch" /\ a.new_branch_name_input = <<>>

\* C40: the commit and branch functions of the Gateway are only called with a
\* non-empty message or name; a confirm on an empty buffer makes no call,
\* sets an Error status and leaves the mode; an amend is only issued from the
\* mode entered with the amend key: the amend flag is raised by that key only,
\* is never up outside commit-message mode, and a plain commit entry leaves
\* it down.
C40_NoEmptyConfirm ==
  [][/\ \A i \in DOMAIN ret' :
          ret'[i].name \in NamedRequests => ret'[i].args[1] # <<>>
     /\ EmptyConfirm(app, input') =>
          /\ ret' = <<>>
          /\ app'.status_message # None /\ app'.status_message_type = "Error"
          /\ ~app'[ModeFlag(Mode(app))]
     /\ (\E i \in DOMAIN ret' : ret'[i].name = "commit_amend") =>
          (Mode(app) = "CommitMessage" /\ app.amend_mode)
     /\ (~app.amend_mode /\ app'.amend_mode) => (Mode(app) = "Normal" /\ input' = "A")
     /\ (Mode(app) = "Normal" /\ input' = "c") => ~app'.amend_mode
     /\ app'.amend_mode => app'.commit_message_mode]_vars

\* Commit-message mode entered with c and confirmed at once.
C40_Witness ==
  /\ input = "Enter" /\ ret = <<>> /\ keys = 2
  /\ app.status_message = Some("Commit message cannot be empty")
  /\ app.status_message_type = "Error"
  /\ ~app.commit_message_mode /\ ~app.amend_mode

====
